---- MODULE Spec2Model ----
(***************************************************************************)
(* A model of the block-copy core of dvdbackup (src/src/dvdbackup.c):      *)
(* the fresh block copier DVDCopyBlocks, the gap refresher                 *)
(* DVDCopyBlocksFillGaps with its plan, sampling and refill, and the       *)
(* title-set mirror and compare operations built on them.                  *)
(*                                                                         *)
(* A logical block is modelled by one value: 0 is the all-zero (blank)     *)
(* block, any other number is a block with at least one non-zero byte.     *)
(* A file is a record [blocks, tail, tailv]: its full 2048-byte blocks,     *)
(* the number of bytes (0..2047) that follow the last full block, and the  *)
(* block value those bytes form once they are padded with zeros.           *)
(***************************************************************************)
EXTENDS Integers, Sequences, FiniteSets, TLC

(* ------------------------------------------------------------------ *)
(* Program constants                                                   *)
(* ------------------------------------------------------------------ *)

\* Bytes per DVD logical block.
DVD_VIDEO_LB_LEN == 2048

\* Copy buffer size in blocks. The program uses 512; the model scales it so
\* that requests larger than one buffer occur within the bounded sizes.
BUFFER_SIZE == 2

\* Number of verification samples wanted by a refresh. The program uses 32.
GAP_SAMPLE_TARGET == 2

\* read_error_strategy_t
STRATEGY_ABORT == "ABORT"
STRATEGY_SKIP_BLOCK == "SKIP_BLOCK"
STRATEGY_SKIP_MULTIBLOCK == "SKIP_MULTIBLOCK"
Strategies == {STRATEGY_ABORT, STRATEGY_SKIP_BLOCK, STRATEGY_SKIP_MULTIBLOCK}

\* gap_strategy_t
GAP_STRATEGY_FORWARD == "FORWARD"
GAP_STRATEGY_REVERSE == "REVERSE"
GAP_STRATEGY_OUTSIDE_IN == "OUTSIDE_IN"
GAP_STRATEGY_RANDOM == "RANDOM"
GapStrategies == {GAP_STRATEGY_FORWARD, GAP_STRATEGY_REVERSE,
                  GAP_STRATEGY_OUTSIDE_IN, GAP_STRATEGY_RANDOM}

(* ------------------------------------------------------------------ *)
(* Bounds of the model                                                 *)
(* ------------------------------------------------------------------ *)

\* Largest block count handed to one copy or refresh.
MaxBlocks == 3

\* Largest disc offset (in blocks) of the range being copied.
MaxOffset == 1

(* ------------------------------------------------------------------ *)
(* Generic helpers                                                     *)
(* ------------------------------------------------------------------ *)

Min(a, b) == IF a < b THEN a ELSE b
Max(a, b) == IF a > b THEN a ELSE b

\* n zero blocks (buffer_zero).
Zeros(n) == [i \in 1..n |-> 0]

\* Number of blank entries of a sequence of blocks.
CountBlank(s) == Cardinality({i \in 1..Len(s) : s[i] = 0})

\* The disc: block i of the file domain being read (0-based). Each block is
\* either blank or carries a value that identifies its position.
DiscLen == MaxOffset + MaxBlocks
Discs == {d \in [0..(DiscLen - 1) -> 0..DiscLen] :
            \A i \in 0..(DiscLen - 1) : d[i] \in {0, i + 1}}

\* A block value that occurs nowhere on the disc (foreign file content).
Foreign == DiscLen + 1

\* The data DVDReadBlocks puts into the buffer when it returns got blocks
\* for a request at block off.
ReadData(d, off, got) == [i \in 1..got |-> d[off + i - 1]]

\* buffer_is_blank over one block.
buffer_is_blank(b) == b = 0

\* st_size of a file.
FileBytes(f) == Len(f.blocks) * DVD_VIDEO_LB_LEN + f.tail

EmptyFile == [blocks |-> << >>, tail |-> 0, tailv |-> 0]

\* The block a partial last block becomes when the file grows beyond it and
\* the bytes it lacks read as zeros: a blank block when its bytes are zero;
\* when they are the first bytes of disc block v, the block -v, which is
\* neither blank nor a block of the disc.
PaddedTail(f) == IF f.tailv \in {0, Foreign} THEN f.tailv ELSE -f.tailv

VARIABLES
  dvd_file,      \* the disc data of the domain that is read
  start_offset,  \* the disc offset the operation was called with
  size,          \* the block count the operation was called with
  errorstrat,    \* the read error strategy
  destination,   \* the output file
  pc,            \* position of the operation
  result,        \* its return value (-1 while running)
  offset,        \* DVDCopyBlocks: the running disc offset
  remaining,     \* DVDCopyBlocks: blocks still to produce
  to_read,       \* DVDCopyBlocks: size of the next request
  short_read,    \* history: some disc read returned less than requested
  gap_strategy,  \* refresh: the refill ordering
  before,        \* refresh history: the output file at entry
  plan,          \* refresh: the gap plan
  blank_blocks,  \* refresh: blank blocks found by the first scan
  truncated_blocks, \* refresh: blocks missing at the end at entry
  sample_slots,  \* refresh: the verification samples
  segments,      \* refresh: segments still to hand to gap_process_segment
  cursor,        \* refresh: cursor of gap_process_segment in the first segment
  filled_blocks, \* refresh: blocks written by the refill
  blank_after,   \* refresh: blank blocks reported after the refill
  truncated_after, \* refresh: missing blocks reported after the refill
  readLog,       \* refresh history: <<start, count>> of each refill disc read
  writeLog,      \* refresh history: <<start, count>> of each refill write
  fill_gaps,     \* the global flag: refresh existing files instead of rewriting
  compare_only,  \* the global flag: compare instead of copy
  title_set_info, \* the inventory of the title set: sizes in bytes
  dvd,           \* the disc: the data of the info, menu and title domains
  tree,          \* the files of the target directory
  existing,      \* history: the target directory when the program started
  step,          \* position of DVDMirrorTitleX
  vob,           \* DVDMirrorTitleX: the title VOB part at hand (i + 1)
  mirror_result, \* return value of the copying pass (-1 while running)
  cmp_result,    \* return value of the comparing pass (-1 until it returns)
  ifo_result,    \* history: return value of DVDCopyIfoBup (-1 before it)
  copied,        \* history: the files a copy operation returned success for
  io_errors,     \* history: a disc read came short, or an open failed
  handles,       \* history: the descriptors the operation at hand opened on
                 \* files of the tree, [name, closes] each, closes counting
                 \* the close() calls made with that descriptor
  cells,         \* history: the cells of the program chain, <<first, last>> each
  cell_start_sector, \* DVDMirrorChapters: first sector of each range
  cell_end_sector,   \* DVDMirrorChapters: last sector of each range
  cell_index,    \* DVDWriteCells: the range at hand (i + 1; 0 before the loop)
  left,          \* DVDWriteCells: blocks of the range still to write
  soffset,       \* DVDWriteCells: the next disc sector to read
  failed_on_read, \* history: the block operation returned failure at a
                 \* short or failed disc read
  title_set,     \* DVDMirror: the title set at hand (the loop's i)
  calls,         \* history: the per-file operations DVDMirrorTitleX called,
                 \* [title_set, name, ret], ret -1 while the call runs
  disc_result,   \* the entry point's return value, -1 while it runs
  request,       \* what the entry point was asked for: [kind, n], kind "disc"
                 \* (DVDMirror), "title_set" (DVDMirrorTitleSet) or "titles"
                 \* (DVDMirrorTitles), n the title set or title number
  vmg_ifo,       \* DVDGetInfo: what the VMG IFO and the title VOBs tell about
                 \* the title sets, and the preferred aspect ratio
  titles_info    \* DVDGetInfo: main_title_set, with the rule that chose it
                 \* and, as history, the positions of size_size_array the
                 \* multi-episode scan passed to the size check as target

copyVars == <<offset, remaining, to_read, short_read>>
ioVars == <<dvd_file, start_offset, size, errorstrat>>
planVars == <<plan, blank_blocks, truncated_blocks, sample_slots>>
fillVars == <<segments, cursor, filled_blocks, readLog, writeLog>>
afterVars == <<blank_after, truncated_after>>
refreshVars == <<gap_strategy, before, planVars, fillVars, afterVars>>
blockVars == <<ioVars, destination, pc, result, copyVars, refreshVars,
               failed_on_read>>
mirrorVars == <<fill_gaps, compare_only, title_set_info, dvd, tree, existing,
                step, vob,
                mirror_result, cmp_result, ifo_result, copied, io_errors,
                handles>>
cellVars == <<cells, cell_start_sector, cell_end_sector, cell_index, left,
              soffset>>
discVars == <<title_set, calls, disc_result, request>>
guessVars == <<vmg_ifo, titles_info>>
vars == <<blockVars, mirrorVars, cellVars, discVars, guessVars>>

\* The values of the variables an operation does not use.
CopyIdle ==
  /\ offset = 0 /\ remaining = 0 /\ to_read = 0 /\ short_read = FALSE

RefreshLocalsIdle ==
  /\ before = EmptyFile
  /\ plan = << >> /\ blank_blocks = 0 /\ truncated_blocks = 0
  /\ sample_slots = << >>
  /\ segments = << >> /\ cursor = 0 /\ filled_blocks = 0
  /\ readLog = << >> /\ writeLog = << >>
  /\ blank_after = 0 /\ truncated_after = 0

RefreshIdle == gap_strategy = GAP_STRATEGY_FORWARD /\ RefreshLocalsIdle

NoGuess == [main_title_set |-> 0, rule |-> "none", multi |-> FALSE,
            size_reads |-> << >>]

GuessIdle == vmg_ifo = << >> /\ titles_info = NoGuess

DiscIdle ==
  /\ title_set = 0 /\ calls = << >> /\ disc_result = -1
  /\ request = [kind |-> "disc", n |-> 0]
  /\ GuessIdle

CellsIdle ==
  /\ cells = << >> /\ cell_start_sector = << >> /\ cell_end_sector = << >>
  /\ cell_index = 0 /\ left = 0 /\ soffset = 0
  /\ failed_on_read = FALSE
  /\ DiscIdle

(* ------------------------------------------------------------------ *)
(* The disc, the inventory and the target directory of a mirror        *)
(* ------------------------------------------------------------------ *)

\* Largest block count of a title VOB output file. The program uses 524288
\* (1 GiB); the model scales it so that sizes around the limit occur.
MAX_VOB_SIZE == 2

\* The files of one title set in <targetdir>/<title_name>/VIDEO_TS:
\* VTS_XX_0.IFO, VTS_XX_0.BUP, VTS_XX_0.VOB and the parts VTS_XX_v.VOB.
IFO == <<"IFO", 0>>
BUP == <<"BUP", 0>>
MENU == <<"MENU", 0>>
VobName(v) == <<"VOB", v>>

\* The number of title VOB parts the bounded disc offsets allow.
MaxParts == MaxOffset + 1

Names == {IFO, BUP, MENU} \cup {VobName(v) : v \in 1..MaxParts}

\* What stat() finds at a path: nothing, something that is not a regular
\* file, or a regular file with its content.
NoFile == [kind |-> "none", file |-> EmptyFile]
NotRegular == [kind |-> "dir", file |-> EmptyFile]
Regular(f) == [kind |-> "reg", file |-> f]

\* A domain of the disc without any all-zero block.
FullDisc == [i \in 0..(DiscLen - 1) |-> i + 1]

\* title_set_t of a title set without files.
NoTitleSet == [size_ifo |-> 0, size_menu |-> 0, size_vob |-> << >>]

\* The values of the mirror variables while a single block copy (fg = FALSE)
\* or a single refresh (fg = TRUE) is studied on its own.
MirrorIdle(fg) ==
  /\ fill_gaps = fg /\ compare_only = FALSE
  /\ title_set_info = NoTitleSet
  /\ dvd = [info |-> FullDisc, menu |-> FullDisc, title |-> FullDisc]
  /\ tree = [n \in Names |-> NoFile]
  /\ existing = tree
  /\ step = "idle" /\ vob = 0
  /\ mirror_result = -1 /\ cmp_result = -1 /\ ifo_result = -1
  /\ copied = {} /\ io_errors = FALSE /\ handles = << >>


(* ------------------------------------------------------------------ *)
(* DVDCopyBlocks, fresh mode (fill_gaps = 0)                           *)
(* ------------------------------------------------------------------ *)

\* write(destination, ...) of whole blocks at the end of a fresh output file.
AppendBlocks(f, data) == [f EXCEPT !.blocks = @ \o data]

\* A padding width that forgets the blocks the short read did deliver.
NumBlanks_NoSubtract(strat, req, act_read) ==
  IF strat = STRATEGY_SKIP_BLOCK THEN 1 ELSE req

\* A padding width that gives SKIP_BLOCK no block to step over.
NumBlanks_NoStep(strat, req, act_read) ==
  IF strat = STRATEGY_SKIP_BLOCK THEN 0 ELSE req - act_read

\* The width of the zero padding after a short read (the switch on errorstrat).
NumBlanks(strat, req, act_read) ==
  IF strat = STRATEGY_SKIP_BLOCK THEN 1 ELSE req - act_read

\* Entry of DVDCopyBlocks with fill_gaps = 0: the locals before the loop.
\* The output was just created or truncated by the caller, so it is empty.
InitCopy ==
  /\ dvd_file \in Discs
  /\ start_offset \in 0..MaxOffset
  /\ size \in 0..MaxBlocks
  /\ errorstrat \in Strategies
  /\ destination = EmptyFile
  /\ pc = "copy"
  /\ result = -1
  /\ offset = start_offset
  /\ remaining = size
  /\ to_read = BUFFER_SIZE
  /\ short_read = FALSE
  /\ RefreshIdle
  /\ MirrorIdle(FALSE)
  /\ CellsIdle

\* One iteration of while (remaining > 0): a disc read that returns act_read
\* (negative on failure), the write of what was read, and the padding the
\* strategy asks for. wok and pok tell whether the two write() calls succeed.
DVDCopyBlocksIter ==
  /\ pc = "copy"
  /\ remaining > 0
  /\ LET req == IF to_read > remaining THEN remaining ELSE to_read IN
     \E act_read \in (-1)..req, wok \in BOOLEAN, pok \in BOOLEAN :
       LET got == IF act_read > 0 THEN act_read ELSE 0
           data == ReadData(dvd_file, offset, got)
           written == IF got > 0 THEN AppendBlocks(destination, data)
                      ELSE destination
           off1 == offset + got
           rem1 == remaining - got
           numBlanks == NumBlanks(errorstrat, req, got)
       IN
       /\ to_read' = req
       /\ short_read' = (short_read \/ act_read # req)
       /\ failed_on_read' = (~(got > 0 /\ ~wok) /\ act_read # req
                              /\ errorstrat = STRATEGY_ABORT)
       /\ IF got > 0 /\ ~wok
          THEN \* the data write failed: return(1)
               /\ pc' = "done" /\ result' = 1
               /\ UNCHANGED <<destination, offset, remaining>>
          ELSE IF act_read = req
          THEN \* full read
               /\ destination' = written
               /\ offset' = off1 /\ remaining' = rem1
               /\ UNCHANGED <<pc, result>>
          ELSE IF errorstrat = STRATEGY_ABORT
          THEN /\ destination' = written
               /\ offset' = off1 /\ remaining' = rem1
               /\ pc' = "done" /\ result' = 1
          ELSE IF ~pok
          THEN \* the padding write failed: return 1
               /\ destination' = written
               /\ offset' = off1 /\ remaining' = rem1
               /\ pc' = "done" /\ result' = 1
          ELSE /\ destination' = AppendBlocks(written, Zeros(numBlanks))
               /\ offset' = off1 + numBlanks
               /\ remaining' = rem1 - numBlanks
               /\ UNCHANGED <<pc, result>>
  /\ UNCHANGED <<ioVars, refreshVars>>
  /\ UNCHANGED mirrorVars
  /\ UNCHANGED <<cellVars, guessVars>>
  /\ UNCHANGED discVars

\* The loop ends: return 0.
DVDCopyBlocksReturn ==
  /\ pc = "copy"
  /\ remaining <= 0
  /\ pc' = "done"
  /\ result' = 0
  /\ UNCHANGED <<destination, copyVars, ioVars, refreshVars, failed_on_read>>
  /\ UNCHANGED mirrorVars
  /\ UNCHANGED <<cellVars, guessVars>>
  /\ UNCHANGED discVars

NextCopy == DVDCopyBlocksIter \/ DVDCopyBlocksReturn

SpecCopy == InitCopy /\ [][NextCopy]_vars


(* ------------------------------------------------------------------ *)
(* The gap plan                                                        *)
(* ------------------------------------------------------------------ *)

\* A plan builder that never extends the last range: a range that starts at
\* the end of the last one is stored as a range of its own.
gap_plan_add_NoCoalesce(pl, start, count) ==
  IF count = 0 THEN pl
  ELSE Append(pl, [start_block |-> start, block_count |-> count])

\* gap_plan_add: append {start, count} to the plan, or extend the last range
\* when start falls inside it or at its end. The plan is a sequence of
\* records [start_block, block_count].
gap_plan_add(pl, start, count) ==
  IF count = 0 THEN pl
  ELSE IF Len(pl) > 0 /\ start <= pl[Len(pl)].start_block + pl[Len(pl)].block_count
  THEN LET last == pl[Len(pl)]
           last_end == last.start_block + last.block_count
           new_end == start + count
       IN IF new_end > last_end
          THEN [pl EXCEPT ![Len(pl)].block_count = new_end - last.start_block]
          ELSE pl
  ELSE Append(pl, [start_block |-> start, block_count |-> count])

\* gap_plan_contains: the loop over the ranges, with its early return 0 as
\* soon as block lies before a range.
RECURSIVE PlanContainsFrom(_, _, _)
PlanContainsFrom(pl, i, block) ==
  IF i > Len(pl) THEN FALSE
  ELSE IF block < pl[i].start_block THEN FALSE
  ELSE IF block < pl[i].start_block + pl[i].block_count THEN TRUE
  ELSE PlanContainsFrom(pl, i + 1, block)

gap_plan_contains(pl, block) == PlanContainsFrom(pl, 1, block)

\* The pending_start value that means "no pending run" (SIZE_MAX).
NoPending == -1

\* The for loop over the blocks of one chunk in scan_existing_file_for_gaps.
\* st = [plan, blank_blocks, pending_start].
RECURSIVE ScanChunk(_, _, _, _, _)
ScanChunk(blocks, processed, chunk_blocks, i, st) ==
  IF i >= chunk_blocks THEN st
  ELSE LET block_index == processed + i IN
       IF buffer_is_blank(blocks[block_index + 1])
       THEN ScanChunk(blocks, processed, chunk_blocks, i + 1,
              IF st.pending_start = NoPending
              THEN [st EXCEPT !.pending_start = block_index] ELSE st)
       ELSE IF st.pending_start # NoPending
       THEN LET run == block_index - st.pending_start IN
            ScanChunk(blocks, processed, chunk_blocks, i + 1,
              [plan |-> gap_plan_add(st.plan, st.pending_start, run),
               blank_blocks |-> st.blank_blocks + run,
               pending_start |-> NoPending])
       ELSE ScanChunk(blocks, processed, chunk_blocks, i + 1, st)

\* The while (processed < scan_blocks) loop: chunks of at most BUFFER_SIZE.
RECURSIVE ScanLoop(_, _, _, _)
ScanLoop(blocks, processed, scan_blocks, st) ==
  IF processed >= scan_blocks THEN st
  ELSE LET chunk_blocks == Min(scan_blocks - processed, BUFFER_SIZE) IN
       ScanLoop(blocks, processed + chunk_blocks, scan_blocks,
                ScanChunk(blocks, processed, chunk_blocks, 0, st))

\* A scan that forgets the run still pending when the loop ends.
scan_existing_file_for_gaps_NoFlush(f, expected_blocks) ==
  LET existing_bytes == FileBytes(f)
      full_blocks == existing_bytes \div DVD_VIDEO_LB_LEN
      scan_blocks == IF full_blocks > expected_blocks THEN expected_blocks
                     ELSE full_blocks
      st == ScanLoop(f.blocks, 0, scan_blocks,
                     [plan |-> << >>, blank_blocks |-> 0,
                      pending_start |-> NoPending])
  IN [plan |-> st.plan, blank_blocks |-> st.blank_blocks,
      full_blocks |-> full_blocks, existing_bytes |-> existing_bytes]

\* scan_existing_file_for_gaps(fd, expected_blocks, ...): the plan of blank
\* runs within the first min(full_blocks, expected_blocks) blocks, with the
\* out-parameters blank_blocks, full_blocks and existing_bytes.
scan_existing_file_for_gaps(f, expected_blocks) ==
  LET existing_bytes == FileBytes(f)
      full_blocks == existing_bytes \div DVD_VIDEO_LB_LEN
      scan_blocks == IF full_blocks > expected_blocks THEN expected_blocks
                     ELSE full_blocks
      st == ScanLoop(f.blocks, 0, scan_blocks,
                     [plan |-> << >>, blank_blocks |-> 0,
                      pending_start |-> NoPending])
      flushed == IF st.pending_start # NoPending
                 THEN [plan |-> gap_plan_add(st.plan, st.pending_start,
                                             scan_blocks - st.pending_start),
                       blank_blocks |-> st.blank_blocks
                                        + (scan_blocks - st.pending_start)]
                 ELSE [plan |-> st.plan, blank_blocks |-> st.blank_blocks]
  IN [plan |-> flushed.plan, blank_blocks |-> flushed.blank_blocks,
      full_blocks |-> full_blocks, existing_bytes |-> existing_bytes]

\* A plan builder that takes the last full block of the file for a partial
\* one, so that the trailing range starts one block early.
BuildPlan_LastBlockPartial(f, sz) ==
  LET sc == scan_existing_file_for_gaps(f, sz)
      full == IF sc.full_blocks > 0 THEN sc.full_blocks - 1 ELSE 0
      existing_blocks == IF sz < full THEN sz ELSE full
      missing == sz - existing_blocks
  IN [plan |-> IF sz > existing_blocks
               THEN gap_plan_add(sc.plan, existing_blocks, missing)
               ELSE sc.plan,
      blank_blocks |-> sc.blank_blocks,
      truncated_blocks |-> IF sz > existing_blocks THEN missing ELSE 0,
      existing_blocks |-> existing_blocks]

\* DVDCopyBlocksFillGaps, lines 1899-1917: the scan, then the synthetic
\* trailing range when the file is shorter than size blocks.
\* Yields [plan, blank_blocks, truncated_blocks, existing_blocks].
BuildPlan(f, sz) ==
  LET sc == scan_existing_file_for_gaps(f, sz)
      existing_blocks == IF sz < sc.full_blocks THEN sz ELSE sc.full_blocks
      missing == sz - existing_blocks
  IN [plan |-> IF sz > existing_blocks
               THEN gap_plan_add(sc.plan, existing_blocks, missing)
               ELSE sc.plan,
      blank_blocks |-> sc.blank_blocks,
      truncated_blocks |-> IF sz > existing_blocks THEN missing ELSE 0,
      existing_blocks |-> existing_blocks]


(* ------------------------------------------------------------------ *)
(* Verification sampling                                               *)
(* ------------------------------------------------------------------ *)

\* while (forward < available_blocks && gap_plan_contains(plan, forward))
RECURSIVE WalkForward(_, _, _)
WalkForward(pl, available_blocks, forward) ==
  IF forward < available_blocks /\ gap_plan_contains(pl, forward)
  THEN WalkForward(pl, available_blocks, forward + 1)
  ELSE forward

\* while (backward > 0 && gap_plan_contains(plan, backward))
RECURSIVE WalkBackward(_, _)
WalkBackward(pl, backward) ==
  IF backward > 0 /\ gap_plan_contains(pl, backward)
  THEN WalkBackward(pl, backward - 1)
  ELSE backward

\* A collecting loop without the comparison with the previous sample.
RECURSIVE CollectFrom_KeepDuplicates(_, _, _, _, _)
CollectFrom_KeepDuplicates(pl, available_blocks, target, i, samples) ==
  IF i >= target THEN samples
  ELSE LET cand0 == ((i + 1) * available_blocks) \div (target + 1)
           candidate == IF cand0 >= available_blocks
                        THEN available_blocks - 1 ELSE cand0
           fwd == WalkForward(pl, available_blocks, cand0)
           backward == WalkBackward(pl, candidate)
           skip == fwd >= available_blocks /\ gap_plan_contains(pl, backward)
           forward == IF fwd >= available_blocks THEN backward ELSE fwd
       IN CollectFrom_KeepDuplicates(pl, available_blocks, target, i + 1,
            IF skip THEN samples ELSE Append(samples, forward))

\* The body of the for loop of gap_collect_samples for index i.
RECURSIVE CollectFrom(_, _, _, _, _)
CollectFrom(pl, available_blocks, target, i, samples) ==
  IF i >= target THEN samples
  ELSE LET cand0 == ((i + 1) * available_blocks) \div (target + 1)
           candidate == IF cand0 >= available_blocks
                        THEN available_blocks - 1 ELSE cand0
           fwd == WalkForward(pl, available_blocks, cand0)
           backward == WalkBackward(pl, candidate)
           skip == fwd >= available_blocks /\ gap_plan_contains(pl, backward)
           forward == IF fwd >= available_blocks THEN backward ELSE fwd
       IN IF skip
          THEN CollectFrom(pl, available_blocks, target, i + 1, samples)
          ELSE IF Len(samples) > 0 /\ samples[Len(samples)] = forward
          THEN CollectFrom(pl, available_blocks, target, i + 1, samples)
          ELSE CollectFrom(pl, available_blocks, target, i + 1,
                           Append(samples, forward))

\* gap_collect_samples(plan, available_blocks, desired, samples): the sample
\* block indices, as a sequence.
gap_collect_samples(pl, available_blocks, desired) ==
  IF available_blocks = 0 \/ desired = 0 THEN << >>
  ELSE CollectFrom(pl, available_blocks,
                   IF available_blocks < desired THEN available_blocks
                   ELSE desired,
                   0, << >>)

\* gap_verify_samples: the samples are checked in order; failAt is the
\* 1-based index of the first sample whose disc read does not return one
\* block (0 when every read succeeds). Returns 0 or 1.
RECURSIVE VerifyFrom(_, _, _, _, _, _)
VerifyFrom(f, d, dvd_offset, samples, i, failAt) ==
  IF i > Len(samples) THEN 0
  ELSE LET block == samples[i] IN
       IF i = failAt THEN 1
       ELSE IF block >= Len(f.blocks) THEN 1
       ELSE IF d[dvd_offset + block] # f.blocks[block + 1] THEN 1
       ELSE VerifyFrom(f, d, dvd_offset, samples, i + 1, failAt)

\* A verification loop that stops one sample early.
gap_verify_samples_SkipLast(f, d, dvd_offset, samples, failAt) ==
  VerifyFrom(f, d, dvd_offset, SubSeq(samples, 1, Len(samples) - 1), 1, failAt)

gap_verify_samples(f, d, dvd_offset, samples, failAt) ==
  VerifyFrom(f, d, dvd_offset, samples, 1, failAt)

\* gap_verify_samples returned 1 at the DVDReadBlocks test of sample failAt:
\* every earlier sample was read and matched.
VerifyStoppedAtRead(f, d, dvd_offset, samples, failAt) ==
  /\ failAt > 0
  /\ VerifyFrom(f, d, dvd_offset, SubSeq(samples, 1, failAt - 1), 1, 0) = 0


(* ------------------------------------------------------------------ *)
(* Refill                                                              *)
(* ------------------------------------------------------------------ *)

Seg(start, count) == [start_block |-> start, block_count |-> count]

\* GAP_STRATEGY_FORWARD: one gap_process_segment call per range.
ForwardSegments(range) == << Seg(range.start_block, range.block_count) >>

\* GAP_STRATEGY_REVERSE: the while (processed < range_blocks) loop.
RECURSIVE ReverseSegments(_, _)
ReverseSegments(range, processed) ==
  IF processed >= range.block_count THEN << >>
  ELSE LET chunk == Min(range.block_count - processed, BUFFER_SIZE)
           segment_start == range.start_block + range.block_count - processed - chunk
       IN << Seg(segment_start, chunk) >> \o ReverseSegments(range, processed + chunk)

\* An alternation that takes the tail segment when the flag asks for the head.
RECURSIVE OutsideInSegments_TailFirst(_, _, _, _)
OutsideInSegments_TailFirst(range, front, back, use_front) ==
  IF front >= back THEN << >>
  ELSE LET chunk == Min(back - front, BUFFER_SIZE) IN
       IF use_front
       THEN << Seg(range.start_block + (back - chunk), chunk) >>
            \o OutsideInSegments_TailFirst(range, front, back - chunk, FALSE)
       ELSE << Seg(range.start_block + front, chunk) >>
            \o OutsideInSegments_TailFirst(range, front + chunk, back, TRUE)

\* GAP_STRATEGY_OUTSIDE_IN: the while (front < back) loop.
RECURSIVE OutsideInSegments(_, _, _, _)
OutsideInSegments(range, front, back, use_front) ==
  IF front >= back THEN << >>
  ELSE LET chunk == Min(back - front, BUFFER_SIZE) IN
       IF use_front
       THEN << Seg(range.start_block + front, chunk) >>
            \o OutsideInSegments(range, front + chunk, back, FALSE)
       ELSE << Seg(range.start_block + (back - chunk), chunk) >>
            \o OutsideInSegments(range, front, back - chunk, TRUE)

\* GAP_STRATEGY_RANDOM: the while (produced < range_blocks) flattening loop.
RECURSIVE FlattenRange(_, _)
FlattenRange(range, produced) ==
  IF produced >= range.block_count THEN << >>
  ELSE LET chunk == Min(range.block_count - produced, BUFFER_SIZE) IN
       << Seg(range.start_block + produced, chunk) >>
       \o FlattenRange(range, produced + chunk)

\* The segments of the ranges i..Len(plan), range by range in plan order.
RECURSIVE PlanSegments(_, _, _)
PlanSegments(pl, i, strategy) ==
  IF i > Len(pl) THEN << >>
  ELSE (CASE strategy = GAP_STRATEGY_FORWARD -> ForwardSegments(pl[i])
          [] strategy = GAP_STRATEGY_REVERSE -> ReverseSegments(pl[i], 0)
          [] strategy = GAP_STRATEGY_OUTSIDE_IN ->
               OutsideInSegments(pl[i], 0, pl[i].block_count, TRUE)
          [] OTHER -> FlattenRange(pl[i], 0))
       \o PlanSegments(pl, i + 1, strategy)

SwapAt(q, a, b) == [q EXCEPT ![a] = q[b], ![b] = q[a]]

\* The Fisher-Yates loop for (i = segment_count; i > 1; --i) with
\* j = rand() % i: every value of j is possible for some seed.
RECURSIVE Shuffles(_, _)
Shuffles(q, i) ==
  IF i <= 1 THEN {q}
  ELSE UNION {Shuffles(SwapAt(q, i, j + 1), i - 1) : j \in 0..(i - 1)}

\* Segment orders that leave out the remainder segments, those shorter than
\* BUFFER_SIZE.
SegmentOrders_SkipShort(pl, strategy) ==
  LET flat == PlanSegments(pl, 1, strategy)
      whole == SelectSeq(flat, LAMBDA g : g.block_count = BUFFER_SIZE)
  IN IF strategy = GAP_STRATEGY_RANDOM
     THEN Shuffles(whole, Len(whole)) ELSE {whole}

\* The orders in which gap_fill_from_plan can hand segments to
\* gap_process_segment.
SegmentOrders(pl, strategy) ==
  IF strategy = GAP_STRATEGY_RANDOM
  THEN LET flat == PlanSegments(pl, 1, strategy) IN Shuffles(flat, Len(flat))
  ELSE {PlanSegments(pl, 1, strategy)}

\* pwrite(fd, data, n * 2048, pos * 2048): overwrite in place, extend the
\* file, or leave a hole of zero bytes between the old end and pos. A tail
\* of the old file that the write does not cover becomes a full block.
PWrite(f, pos, data) ==
  LET n == Len(f.blocks)
      e == pos + Len(data)
  IN IF Len(data) = 0 THEN f
     ELSE IF e <= n
     THEN [f EXCEPT !.blocks = [i \in 1..n |->
                       IF i > pos /\ i <= e THEN data[i - pos] ELSE @[i]]]
     ELSE IF pos <= n
     THEN [blocks |-> SubSeq(f.blocks, 1, pos) \o data, tail |-> 0, tailv |-> 0]
     ELSE [blocks |-> f.blocks \o << PaddedTail(f) >> \o Zeros(pos - n - 1)
                        \o data,
           tail |-> 0, tailv |-> 0]

\* A write position taken relative to the segment instead of the file.
SegWriteBlock_Relative(segment_start, cur) == cur

\* The block at which gap_process_segment writes what it read at
\* segment_start + cursor (the pwrite offset, line 526).
SegWriteBlock(segment_start, cur) == segment_start + cur

\* The skip width of gap_process_segment after a short read (lines 546-562).
SkipBlocks(strat, chunk, usable_blocks, rem) ==
  LET unread == IF chunk - usable_blocks = 0 THEN 1 ELSE chunk - usable_blocks
      skip_blocks == IF strat = STRATEGY_SKIP_BLOCK THEN 1 ELSE unread
  IN IF skip_blocks > rem THEN rem ELSE skip_blocks


(* ------------------------------------------------------------------ *)
(* DVDCopyBlocksFillGaps (refresh mode)                                *)
(* ------------------------------------------------------------------ *)

\* The files a refresh can find: up to sz + 1 full blocks, each blank, equal
\* to the disc block of the same index, or foreign; and possibly a tail.
ExistingFiles(d, off, sz) ==
  {[blocks |-> b, tail |-> t[1], tailv |-> t[2]] :
     b \in UNION {[1..n -> {0, Foreign} \cup {d[i] : i \in 0..(DiscLen - 1)}] :
                    n \in 0..(sz + 1)},
     t \in {<<0, 0>>, <<1, 0>>, <<1, Foreign>>}}

InitRefresh ==
  /\ start_offset \in {0, MaxOffset}
  /\ size \in 0..MaxBlocks
  /\ dvd_file \in {d \in Discs : \A i \in 0..(DiscLen - 1) :
                      (i < start_offset \/ i >= start_offset + size) => d[i] # 0}
  /\ errorstrat \in Strategies
  /\ gap_strategy \in GapStrategies
  /\ destination \in {f \in ExistingFiles(dvd_file, start_offset, size) :
        \A i \in 1..Len(f.blocks) :
           f.blocks[i] \in {0, Foreign}
             \cup (IF i <= size THEN {dvd_file[start_offset + i - 1]} ELSE {})}
  /\ before = destination
  /\ pc = "fg_scan"
  /\ result = -1
  /\ plan = << >> /\ blank_blocks = 0 /\ truncated_blocks = 0
  /\ sample_slots = << >>
  /\ segments = << >> /\ cursor = 0 /\ filled_blocks = 0
  /\ readLog = << >> /\ writeLog = << >>
  /\ blank_after = 0 /\ truncated_after = 0
  /\ CopyIdle
  /\ MirrorIdle(TRUE)
  /\ CellsIdle

\* Lines 1899-1919: scan the file, add the trailing range, collect samples.
\* ok is FALSE when fstat or pread on the file fails.
FillGapsScan ==
  /\ pc = "fg_scan"
  /\ \E ok \in BOOLEAN :
       IF ok
       THEN LET bp == BuildPlan(destination, size) IN
            /\ plan' = bp.plan
            /\ blank_blocks' = bp.blank_blocks
            /\ truncated_blocks' = bp.truncated_blocks
            /\ sample_slots' = gap_collect_samples(bp.plan, size, GAP_SAMPLE_TARGET)
            /\ pc' = "fg_verify"
            /\ UNCHANGED result
       ELSE /\ pc' = "done" /\ result' = 1
            /\ UNCHANGED planVars
  /\ UNCHANGED <<ioVars, destination, copyVars, gap_strategy, before,
                 fillVars, afterVars, failed_on_read>>
  /\ UNCHANGED mirrorVars
  /\ UNCHANGED <<cellVars, guessVars>>
  /\ UNCHANGED discVars

\* Lines 1920-1932: verify the samples; on success enter gap_fill_from_plan,
\* which fixes the order of the segments (for RANDOM, by the shuffle).
FillGapsVerify ==
  /\ pc = "fg_verify"
  /\ \E failAt \in 0..Len(sample_slots) :
       IF Len(sample_slots) > 0
          /\ gap_verify_samples(destination, dvd_file, start_offset,
                                sample_slots, failAt) # 0
       THEN /\ pc' = "done" /\ result' = 1
            /\ failed_on_read' = VerifyStoppedAtRead(destination, dvd_file,
                                     start_offset, sample_slots, failAt)
            /\ UNCHANGED <<segments, blank_after, truncated_after>>
       ELSE /\ pc' = "fg_fill"
            /\ segments' \in SegmentOrders(plan, gap_strategy)
            /\ blank_after' = blank_blocks
            /\ truncated_after' = truncated_blocks
            /\ UNCHANGED <<result, failed_on_read>>
  /\ UNCHANGED <<ioVars, destination, copyVars, gap_strategy, before,
                 planVars, cursor, filled_blocks, readLog, writeLog>>
  /\ UNCHANGED mirrorVars
  /\ UNCHANGED <<cellVars, guessVars>>
  /\ UNCHANGED discVars

\* One iteration of while (cursor < block_count) in gap_process_segment, for
\* the first pending segment: a disc read that returns blocks_read, the
\* pwrite of the usable blocks (wok: it succeeds), and the skip.
GapProcessSegmentIter ==
  /\ pc = "fg_fill"
  /\ Len(segments) > 0
  /\ LET seg == Head(segments)
         chunk == Min(seg.block_count - cursor, BUFFER_SIZE)
         read_block == seg.start_block + cursor
         write_block == SegWriteBlock(seg.start_block, cursor)
     IN
     \E blocks_read \in (-1)..chunk, wok \in BOOLEAN :
       LET usable_blocks == IF blocks_read > 0 THEN blocks_read ELSE 0
           data == ReadData(dvd_file, start_offset + read_block, usable_blocks)
           rem == seg.block_count - (cursor + usable_blocks)
           next_cursor ==
             IF usable_blocks < chunk
             THEN IF rem = 0 THEN seg.block_count
                  ELSE cursor + usable_blocks
                       + SkipBlocks(errorstrat, chunk, usable_blocks, rem)
             ELSE cursor + chunk
       IN
       /\ readLog' = Append(readLog, <<read_block, chunk>>)
       /\ failed_on_read' = (~(usable_blocks > 0 /\ ~wok)
                              /\ usable_blocks < chunk /\ rem # 0
                              /\ errorstrat = STRATEGY_ABORT)
       /\ IF usable_blocks > 0 /\ ~wok
          THEN \* pwrite failed: return 1
               /\ pc' = "done" /\ result' = 1
               /\ UNCHANGED <<destination, writeLog, filled_blocks,
                              segments, cursor>>
          ELSE /\ destination' = PWrite(destination, write_block, data)
               /\ writeLog' = IF usable_blocks > 0
                               THEN Append(writeLog, <<write_block, usable_blocks>>)
                               ELSE writeLog
               /\ filled_blocks' = filled_blocks + usable_blocks
               /\ IF usable_blocks < chunk /\ rem # 0
                     /\ errorstrat = STRATEGY_ABORT
                  THEN /\ pc' = "done" /\ result' = 1
                       /\ UNCHANGED <<segments, cursor>>
                  ELSE /\ IF next_cursor < seg.block_count
                          THEN /\ cursor' = next_cursor
                               /\ UNCHANGED segments
                          ELSE /\ cursor' = 0
                               /\ segments' = Tail(segments)
                       /\ UNCHANGED <<pc, result>>
  /\ UNCHANGED <<ioVars, copyVars, gap_strategy, before, planVars, afterVars>>
  /\ UNCHANGED mirrorVars
  /\ UNCHANGED <<cellVars, guessVars>>
  /\ UNCHANGED discVars

\* gap_fill_from_plan returned 0: lines 1936-1963, the second scan and the
\* report; return 0. ok is FALSE when fstat or pread fails in the second
\* scan, and the counts of the first scan are reported again.
FillGapsFinish ==
  /\ pc = "fg_fill"
  /\ Len(segments) = 0
  /\ \E ok \in BOOLEAN :
       LET sc == scan_existing_file_for_gaps(destination, size) IN
       IF ok
       THEN /\ blank_after' = sc.blank_blocks
            /\ truncated_after' = IF size > sc.full_blocks
                                   THEN size - sc.full_blocks ELSE 0
       ELSE UNCHANGED afterVars
  /\ pc' = "done"
  /\ result' = 0
  /\ UNCHANGED <<ioVars, destination, copyVars, gap_strategy, before,
                 planVars, fillVars, failed_on_read>>
  /\ UNCHANGED mirrorVars
  /\ UNCHANGED <<cellVars, guessVars>>
  /\ UNCHANGED discVars

NextRefresh ==
  \/ FillGapsScan
  \/ FillGapsVerify
  \/ GapProcessSegmentIter
  \/ FillGapsFinish

SpecRefresh == InitRefresh /\ [][NextRefresh]_vars

(* ------------------------------------------------------------------ *)
(* The title-set mirror: DVDMirrorTitleX and the operations it calls   *)
(* ------------------------------------------------------------------ *)

\* The block counts of the title VOB parts of an inventory: every part has
\* at least one block and lies within the bounded disc offsets and sizes.
RECURSIVE SumTo(_, _)
SumTo(q, k) == IF k <= 0 THEN 0 ELSE SumTo(q, k - 1) + q[k]

VobBlockLists ==
  {q \in UNION {[1..n -> 1..MaxBlocks] : n \in 0..MaxParts} :
     Len(q) > 0 => SumTo(q, Len(q) - 1) <= MaxOffset}

\* The inventories DVDGetFileSet can build for one title set: sizes in bytes
\* as DVDFileStat reports them (whole blocks).
Inventories ==
  {[size_ifo |-> i * DVD_VIDEO_LB_LEN,
    size_menu |-> m * DVD_VIDEO_LB_LEN,
    size_vob |-> [k \in 1..Len(q) |-> q[k] * DVD_VIDEO_LB_LEN]] :
     i \in 0..1, m \in 0..1, q \in VobBlockLists}

\* The title domains the mirror is studied on: at most one all-zero block.
MirrorDiscs == {d \in Discs : Cardinality({i \in 0..(DiscLen - 1) : d[i] = 0}) <= 1}

\* A part offset that never leaves the start of the title domain.
VobOffset_DomainStart(size_vob, v) == 0

\* The for loop that sums the sizes of the parts before part v (lines
\* 2160-2169): the disc offset of part v in the title domain.
RECURSIVE VobOffset(_, _)
VobOffset(size_vob, v) ==
  IF v <= 1 THEN 0
  ELSE VobOffset(size_vob, v - 1) + size_vob[v - 1] \div DVD_VIDEO_LB_LEN

\* The same loop's check that every earlier part has a valid DVD size.
PartsAligned(size_vob, v) ==
  \A i \in 1..(v - 1) : size_vob[i] % DVD_VIDEO_LB_LEN = 0

\* The disc content that belongs into file n of the title set.
DiscContent(info, d, n) ==
  IF n \in {IFO, BUP}
  THEN ReadData(d.info, 0, info.size_ifo \div DVD_VIDEO_LB_LEN)
  ELSE IF n = MENU
  THEN ReadData(d.menu, 0, info.size_menu \div DVD_VIDEO_LB_LEN)
  ELSE IF n[2] <= Len(info.size_vob)
  THEN ReadData(d.title, VobOffset(info.size_vob, n[2]),
                info.size_vob[n[2]] \div DVD_VIDEO_LB_LEN)
  ELSE << >>

\* The target directories the program is started on:
\*   new      no file exists;
\*   stale    every file exists with content of another origin;
\*   partial  what an interrupted run left: the first block of each file and
\*            a stray byte, the BUP empty;
\*   long     every file complete, followed by one more block;
\*   blocked  a directory stands where the BUP and the menu VOB belong.
TreePatterns == {"new", "stale", "partial", "long", "blocked"}

ExistingTree(p, info, d) ==
  [n \in Names |->
     LET c == DiscContent(info, d, n) IN
     CASE p = "new" -> NoFile
       [] p = "stale" ->
            IF n = BUP
            THEN Regular([blocks |-> <<Foreign, Foreign>>, tail |-> 0, tailv |-> 0])
            ELSE Regular([blocks |-> <<Foreign>>, tail |-> 1, tailv |-> Foreign])
       [] p = "partial" ->
            IF n = BUP THEN Regular(EmptyFile)
            ELSE IF Len(c) = 0 THEN NoFile
            ELSE Regular([blocks |-> <<c[1]>>, tail |-> 1, tailv |-> Foreign])
       [] p = "long" ->
            IF Len(c) = 0 THEN NoFile
            ELSE Regular([blocks |-> c \o <<Foreign>>, tail |-> 0, tailv |-> 0])
       [] OTHER -> IF n \in {BUP, MENU} THEN NotRegular ELSE NoFile]

InitMirror ==
  /\ fill_gaps \in BOOLEAN
  /\ compare_only = FALSE
  /\ errorstrat \in Strategies
  /\ gap_strategy \in (IF fill_gaps THEN GapStrategies ELSE {GAP_STRATEGY_FORWARD})
  /\ dvd \in [info : {FullDisc}, menu : {FullDisc}, title : MirrorDiscs]
  /\ title_set_info \in Inventories
  /\ \E p \in TreePatterns : tree = ExistingTree(p, title_set_info, dvd)
  /\ existing = tree
  /\ step = "ifo" /\ vob = 0
  /\ mirror_result = -1 /\ cmp_result = -1 /\ ifo_result = -1
  /\ copied = {} /\ io_errors = FALSE /\ handles = << >>
  /\ dvd_file = FullDisc /\ start_offset = 0 /\ size = 0
  /\ destination = EmptyFile /\ pc = "idle" /\ result = -1
  /\ CopyIdle /\ RefreshLocalsIdle
  /\ CellsIdle

\* A file opened without O_TRUNC: what was there stays.
OpenTruncate_KeepContent(e) == IF e.kind = "reg" THEN e.file ELSE EmptyFile

\* The content of the file behind a descriptor right after
\* open(path, O_WRONLY | O_CREAT | O_TRUNC): nothing.
OpenTruncate(e) == EmptyFile

\* The open of an output VOB (lines 2175-2203 and 2396-2428): an existing
\* file is kept in refresh mode and truncated otherwise; a missing file is
\* created empty.
OpenOutput(e, fg) ==
  IF e.kind = "reg" THEN (IF fg THEN e.file ELSE OpenTruncate(e)) ELSE EmptyFile

\* The points at which DVDCopyIfoBup can fail for a reason outside the
\* program, and "none".
\* A descriptor open() returned for file nm of the tree, with the close()
\* calls made with it so far.
Handle(nm, n) == [name |-> nm, closes |-> n]

\* close(fd) where fd holds the descriptor opened last.
CloseLast(hs) == [hs EXCEPT ![Len(hs)].closes = @ + 1]

IfoFailures ==
  {"none", "open_ifo", "open_bup", "ifoOpen", "read", "write_ifo", "write_bup"}

\* DVDCopyIfoBup on directory tr: the directory it leaves and its return
\* value. fail is the point of failure; a failed write has stored the first
\* part blocks of the buffer.
CopyIfoBup(tr, info, d, fail, part) ==
  LET blocks == info.size_ifo \div DVD_VIDEO_LB_LEN
      buffer == ReadData(d.info, 0, blocks)
      ifo0 == OpenTruncate(tr[IFO])
      bup0 == OpenTruncate(tr[BUP])
      t1 == [tr EXCEPT ![IFO] = Regular(ifo0)]
      t2 == [t1 EXCEPT ![BUP] = Regular(bup0)]
      t3 == [t2 EXCEPT ![IFO] = Regular(PWrite(ifo0, 0, buffer))]
      t4 == [t3 EXCEPT ![BUP] = Regular(PWrite(bup0, 0, buffer))]
      some == SubSeq(buffer, 1, part)
  IN
  IF info.size_ifo = 0 THEN [tree |-> tr, ret |-> 0]
  ELSE IF info.size_ifo % DVD_VIDEO_LB_LEN # 0 THEN [tree |-> tr, ret |-> 1]
  ELSE IF tr[IFO].kind = "dir" THEN [tree |-> tr, ret |-> 1]
  ELSE IF tr[BUP].kind = "dir" THEN [tree |-> tr, ret |-> 1]
  ELSE IF fail = "open_ifo" THEN [tree |-> tr, ret |-> 1]
  ELSE IF fail = "open_bup" THEN [tree |-> t1, ret |-> 1]
  ELSE IF fail \in {"ifoOpen", "read"} THEN [tree |-> t2, ret |-> 1]
  ELSE IF fail = "write_ifo"
  THEN [tree |-> [t2 EXCEPT ![IFO] = Regular(PWrite(ifo0, 0, some))], ret |-> 1]
  ELSE IF fail = "write_bup"
  THEN [tree |-> [t3 EXCEPT ![BUP] = Regular(PWrite(bup0, 0, some))], ret |-> 1]
  ELSE [tree |-> t4, ret |-> 0]

\* The descriptors of DVDCopyIfoBup at its return: every return after line
\* 2643 calls close(streamout_ifo) and close(streamout_bup), which closes
\* what was opened; a descriptor that is still -1 names no file.
CopyIfoBupHandles(tr, info, fail) ==
  IF \/ info.size_ifo = 0
     \/ info.size_ifo % DVD_VIDEO_LB_LEN # 0
     \/ tr[IFO].kind = "dir" \/ tr[BUP].kind = "dir"
     \/ fail = "open_ifo"
  THEN << >>
  ELSE IF fail = "open_bup" THEN <<Handle(IFO, 1)>>
  ELSE <<Handle(IFO, 1), Handle(BUP, 1)>>

\* The variables of the block copier stay as they are.
NoCall == UNCHANGED blockVars

\* DVDMirrorTitleX calls the operation on file nm of the title set at hand;
\* ret is its return value, or -1 while its block copy runs.
Called(nm, ret) ==
  Append(calls, [title_set |-> title_set, name |-> nm, ret |-> ret])

\* The operation whose block copy ran returns.
Returned(ret) == [calls EXCEPT ![Len(calls)].ret = ret]

\* result = DVDCopyBlocks(dvd_file, streamout, off, sz, ...): entry of the
\* block copier on file content f, which goes to the refresh when fill_gaps is
\* set (lines 1971-1973) and initialises the loop otherwise.
CallDVDCopyBlocks(f, d, off, sz) ==
  /\ destination' = f /\ dvd_file' = d /\ start_offset' = off /\ size' = sz
  /\ result' = -1
  /\ pc' = IF fill_gaps THEN "fg_scan" ELSE "copy"
  /\ offset' = IF fill_gaps THEN 0 ELSE off
  /\ remaining' = IF fill_gaps THEN 0 ELSE sz
  /\ to_read' = IF fill_gaps THEN 0 ELSE BUFFER_SIZE
  /\ short_read' = FALSE
  /\ before' = IF fill_gaps THEN f ELSE EmptyFile
  /\ plan' = << >> /\ blank_blocks' = 0 /\ truncated_blocks' = 0
  /\ sample_slots' = << >>
  /\ segments' = << >> /\ cursor' = 0 /\ filled_blocks' = 0
  /\ readLog' = << >> /\ writeLog' = << >>
  /\ blank_after' = 0 /\ truncated_after' = 0
  /\ failed_on_read' = FALSE
  /\ UNCHANGED <<errorstrat, gap_strategy>>

\* DVDMirrorTitleX, lines 2905-2907: DVDCopyIfoBup and the test of its
\* return value.
DVDCopyIfoBup ==
  /\ step = "ifo" /\ ~compare_only
  /\ \E fail \in IfoFailures :
     \E part \in 0..Max(0, title_set_info.size_ifo \div DVD_VIDEO_LB_LEN - 1) :
       LET r == CopyIfoBup(tree, title_set_info, dvd, fail, part) IN
       /\ tree' = r.tree
       /\ handles' = CopyIfoBupHandles(tree, title_set_info, fail)
       /\ ifo_result' = r.ret
       /\ calls' = Called(IFO, r.ret)
       /\ IF r.ret = 0
          THEN /\ step' = "menu"
               /\ copied' = IF title_set_info.size_ifo # 0
                            THEN copied \cup {IFO, BUP} ELSE copied
               /\ UNCHANGED mirror_result
          ELSE /\ step' = "finished" /\ mirror_result' = 1
               /\ UNCHANGED copied
  /\ NoCall
  /\ UNCHANGED <<fill_gaps, compare_only, title_set_info, dvd, existing, vob,
                 cmp_result, io_errors>>
  /\ UNCHANGED <<cellVars, guessVars>>
  /\ UNCHANGED <<title_set, disc_result, request>>

\* DVDCopyMenu up to its call of DVDCopyBlocks (lines 2364-2434). fail names
\* a DVDOpenFile or open() that fails.
DVDCopyMenuOpen ==
  /\ step = "menu" /\ ~compare_only
  /\ \E fail \in {"none", "DVDOpenFile", "open"} :
       LET opened == OpenOutput(tree[MENU], fill_gaps) IN
       IF title_set_info.size_menu = 0
       THEN \* return(0)
            /\ step' = "vob" /\ vob' = 1
            /\ calls' = Called(MENU, 0) /\ handles' = << >>
            /\ NoCall /\ UNCHANGED <<tree, mirror_result, io_errors>>
       ELSE IF fail # "none" \/ tree[MENU].kind = "dir"
       THEN \* return(1)
            /\ step' = "finished" /\ mirror_result' = 1
            /\ calls' = Called(MENU, 1) /\ handles' = << >>
            /\ io_errors' = (io_errors \/ fail # "none")
            /\ NoCall /\ UNCHANGED <<tree, vob>>
       ELSE /\ tree' = [tree EXCEPT ![MENU] = Regular(opened)]
            /\ step' = "menu_run"
            /\ calls' = Called(MENU, -1) /\ handles' = <<Handle(MENU, 0)>>
            /\ CallDVDCopyBlocks(opened, dvd.menu, 0,
                                 title_set_info.size_menu \div DVD_VIDEO_LB_LEN)
            /\ UNCHANGED <<vob, mirror_result, io_errors>>
  /\ UNCHANGED <<fill_gaps, compare_only, title_set_info, dvd, existing,
                 cmp_result, ifo_result, copied>>
  /\ UNCHANGED <<cellVars, guessVars>>
  /\ UNCHANGED <<title_set, disc_result, request>>

\* DVDCopyBlocks has returned to DVDCopyMenu: close the file, return result
\* (lines 2436-2439), and the test in DVDMirrorTitleX (line 2913).
DVDCopyMenuClose ==
  /\ step = "menu_run" /\ pc = "done"
  /\ tree' = [tree EXCEPT ![MENU] = Regular(destination)]
  /\ io_errors' = (io_errors \/ short_read)
  /\ handles' = CloseLast(handles)
  /\ pc' = "idle"
  /\ calls' = Returned(IF result = 0 THEN 0 ELSE 1)
  /\ IF result = 0
     THEN /\ step' = "vob" /\ vob' = 1
          /\ copied' = copied \cup {MENU}
          /\ UNCHANGED mirror_result
     ELSE /\ step' = "finished" /\ mirror_result' = 1
          /\ UNCHANGED <<vob, copied>>
  /\ UNCHANGED <<ioVars, destination, result, copyVars, refreshVars,
                 failed_on_read>>
  /\ UNCHANGED <<fill_gaps, compare_only, title_set_info, dvd, existing,
                 cmp_result, ifo_result>>
  /\ UNCHANGED <<cellVars, guessVars>>
  /\ UNCHANGED <<title_set, disc_result, request>>

\* DVDCopyTitleVobX for part vob up to its call of DVDCopyBlocks (lines
\* 2111-2212). fail names an open() or a DVDOpenFile that fails; the output
\* file is opened before the disc domain.
DVDCopyTitleVobXOpen ==
  /\ step = "vob" /\ ~compare_only
  /\ vob <= Len(title_set_info.size_vob)
  /\ \E fail \in {"none", "open", "DVDOpenFile"} :
       LET size_vob == title_set_info.size_vob
           n == VobName(vob)
           opened == OpenOutput(tree[n], fill_gaps)
       IN
       IF size_vob[1] = 0 \/ size_vob[vob] = 0
       THEN \* return(0)
            /\ vob' = vob + 1
            /\ calls' = Called(n, 0) /\ handles' = << >>
            /\ NoCall /\ UNCHANGED <<tree, step, mirror_result, io_errors>>
       ELSE IF \/ size_vob[vob] % DVD_VIDEO_LB_LEN # 0
               \/ ~PartsAligned(size_vob, vob)
               \/ tree[n].kind = "dir"
               \/ fail = "open"
       THEN \* return(1)
            /\ step' = "finished" /\ mirror_result' = 1
            /\ calls' = Called(n, 1) /\ handles' = << >>
            /\ io_errors' = (io_errors \/ fail = "open")
            /\ NoCall /\ UNCHANGED <<tree, vob>>
       ELSE IF fail = "DVDOpenFile"
       THEN \* the output file is open already: close it and return(1)
            /\ tree' = [tree EXCEPT ![n] = Regular(opened)]
            /\ step' = "finished" /\ mirror_result' = 1
            /\ calls' = Called(n, 1) /\ handles' = <<Handle(n, 1)>>
            /\ io_errors' = TRUE
            /\ NoCall /\ UNCHANGED vob
       ELSE /\ tree' = [tree EXCEPT ![n] = Regular(opened)]
            /\ step' = "vob_run"
            /\ calls' = Called(n, -1) /\ handles' = <<Handle(n, 0)>>
            /\ CallDVDCopyBlocks(opened, dvd.title, VobOffset(size_vob, vob),
                                 size_vob[vob] \div DVD_VIDEO_LB_LEN)
            /\ UNCHANGED <<vob, mirror_result, io_errors>>
  /\ UNCHANGED <<fill_gaps, compare_only, title_set_info, dvd, existing,
                 cmp_result, ifo_result, copied>>
  /\ UNCHANGED <<cellVars, guessVars>>
  /\ UNCHANGED <<title_set, disc_result, request>>

\* DVDCopyBlocks has returned to DVDCopyTitleVobX: close the file, return
\* result (lines 2214-2217), and the test in DVDMirrorTitleX (line 2929).
DVDCopyTitleVobXClose ==
  /\ step = "vob_run" /\ pc = "done"
  /\ tree' = [tree EXCEPT ![VobName(vob)] = Regular(destination)]
  /\ io_errors' = (io_errors \/ short_read)
  /\ handles' = CloseLast(handles)
  /\ pc' = "idle"
  /\ calls' = Returned(IF result = 0 THEN 0 ELSE 1)
  /\ IF result = 0
     THEN /\ step' = "vob" /\ vob' = vob + 1
          /\ copied' = copied \cup {VobName(vob)}
          /\ UNCHANGED mirror_result
     ELSE /\ step' = "finished" /\ mirror_result' = 1
          /\ UNCHANGED <<vob, copied>>
  /\ UNCHANGED <<ioVars, destination, result, copyVars, refreshVars,
                 failed_on_read>>
  /\ UNCHANGED <<fill_gaps, compare_only, title_set_info, dvd, existing,
                 cmp_result, ifo_result>>
  /\ UNCHANGED <<cellVars, guessVars>>
  /\ UNCHANGED <<title_set, disc_result, request>>

\* The loop over the parts has ended: DVDMirrorTitleX returns 0.
DVDMirrorTitleXReturn ==
  /\ step = "vob"
  /\ vob > Len(title_set_info.size_vob)
  /\ step' = "finished"
  /\ IF compare_only
     THEN cmp_result' = 0 /\ UNCHANGED mirror_result
     ELSE mirror_result' = 0 /\ UNCHANGED cmp_result
  /\ NoCall
  /\ UNCHANGED <<fill_gaps, compare_only, title_set_info, dvd, tree, existing,
                 vob, ifo_result, copied, io_errors, handles>>
  /\ UNCHANGED <<cellVars, guessVars>>
  /\ UNCHANGED discVars


(* ------------------------------------------------------------------ *)
(* The compare operations                                              *)
(* ------------------------------------------------------------------ *)

\* The while loop of DVDCmpBlocks and the read of one extra byte after it.
\* pos is the file position in blocks, k counts the disc reads, and errAt is
\* the disc read that comes short (0: none).
RECURSIVE CmpLoop(_, _, _, _, _, _, _)
CmpLoop(d, f, current_offset, pos, rem, k, errAt) ==
  IF rem <= 0
  THEN IF pos * DVD_VIDEO_LB_LEN < FileBytes(f) THEN 1 ELSE 0
  ELSE LET req == Min(BUFFER_SIZE, rem) IN
       IF errAt = k THEN 1
       ELSE IF (pos + req) * DVD_VIDEO_LB_LEN > FileBytes(f)
       THEN 1  \* the file ended prematurely
       ELSE IF \E i \in 1..req : f.blocks[pos + i] # d[current_offset + i - 1]
       THEN 1  \* data mismatch
       ELSE CmpLoop(d, f, current_offset + req, pos + req, rem - req,
                    k + 1, errAt)

\* DVDCmpBlocks(dvd_file, fd, off, sz, ...): the lseek of the file to
\* off * DVD_VIDEO_LB_LEN (line 955), then the loop from disc block off.
DVDCmpBlocks(d, f, off, sz, errAt) == CmpLoop(d, f, off, off, sz, 1, errAt)

\* The calls of DVDCmpIfoBup that can fail: DVDOpenFile (line 2794), open
\* of the IFO (2800), DVDOpenFile again (2834), open of the BUP (2840).
CmpIfoFailures == {"none", "DVDOpenFile", "open", "reopen", "open_bup"}

\* DVDCmpIfoBup: 0 or 1. fail names the call that fails; e1 and e2 are the
\* short disc reads of the two DVDCmpBlocks calls.
CmpIfoBup(tr, info, d, fail, e1, e2) ==
  LET blocks == info.size_ifo \div DVD_VIDEO_LB_LEN IN
  IF info.size_ifo = 0 THEN 0
  ELSE IF info.size_ifo % DVD_VIDEO_LB_LEN # 0 THEN 1
  ELSE IF tr[IFO].kind # "reg" \/ tr[BUP].kind # "reg" THEN 1
  ELSE IF fail \in {"DVDOpenFile", "open"} THEN 1
  ELSE IF DVDCmpBlocks(d.info, tr[IFO].file, 0, blocks, e1) # 0 THEN 1
  ELSE IF fail \in {"reopen", "open_bup"} THEN 1
  ELSE IF DVDCmpBlocks(d.info, tr[BUP].file, 0, blocks, e2) # 0 THEN 1
  ELSE 0

\* The descriptors of DVDCmpIfoBup at its return. fd keeps the number of the
\* IFO descriptor after close(fd) at line 2830, so the cleanup (lines
\* 2877-2879) that a failing second DVDOpenFile jumps to closes it again;
\* a failing open of the BUP sets fd to -1 before the jump.
CmpIfoBupHandles(tr, info, d, fail, e1) ==
  LET blocks == info.size_ifo \div DVD_VIDEO_LB_LEN IN
  IF \/ info.size_ifo = 0
     \/ info.size_ifo % DVD_VIDEO_LB_LEN # 0
     \/ tr[IFO].kind # "reg" \/ tr[BUP].kind # "reg"
     \/ fail \in {"DVDOpenFile", "open"}
  THEN << >>
  ELSE IF DVDCmpBlocks(d.info, tr[IFO].file, 0, blocks, e1) # 0
  THEN <<Handle(IFO, 1)>>
  ELSE IF fail = "reopen" THEN <<Handle(IFO, 2)>>
  ELSE IF fail = "open_bup" THEN <<Handle(IFO, 1)>>
  ELSE <<Handle(IFO, 1), Handle(BUP, 1)>>

\* DVDCmpMenu: 0 or 1.
CmpMenu(tr, info, d, fail, errAt) ==
  LET sz == info.size_menu \div DVD_VIDEO_LB_LEN IN
  IF info.size_menu = 0 THEN 0
  ELSE IF info.size_menu % DVD_VIDEO_LB_LEN # 0 THEN 1
  ELSE IF fail = "DVDOpenFile" THEN 1
  ELSE IF tr[MENU].kind # "reg" THEN 1
  ELSE IF FileBytes(tr[MENU].file) # sz * DVD_VIDEO_LB_LEN THEN 1
  ELSE IF fail = "open" THEN 1
  ELSE DVDCmpBlocks(d.menu, tr[MENU].file, 0, sz, errAt)

\* The descriptor of DVDCmpMenu at its return: every return after the open
\* (line 2513) closes fd.
CmpMenuHandles(tr, info, fail) ==
  IF /\ info.size_menu # 0
     /\ info.size_menu % DVD_VIDEO_LB_LEN = 0
     /\ fail = "none"
     /\ tr[MENU].kind = "reg"
     /\ FileBytes(tr[MENU].file) = info.size_menu
  THEN <<Handle(MENU, 1)>> ELSE << >>

\* DVDCmpTitleVobX for part v: 0 or 1.
CmpTitleVobX(tr, info, d, v, fail, errAt) ==
  LET size_vob == info.size_vob
      sz == size_vob[v] \div DVD_VIDEO_LB_LEN
      e == tr[VobName(v)]
  IN
  IF Len(size_vob) < v THEN 1
  ELSE IF size_vob[1] = 0 \/ size_vob[v] = 0 THEN 1
  ELSE IF size_vob[v] % DVD_VIDEO_LB_LEN # 0 THEN 1
  ELSE IF ~PartsAligned(size_vob, v) THEN 1
  ELSE IF fail = "DVDOpenFile" THEN 1
  ELSE IF e.kind # "reg" THEN 1
  ELSE IF FileBytes(e.file) # sz * DVD_VIDEO_LB_LEN THEN 1
  ELSE IF fail = "open" THEN 1
  ELSE DVDCmpBlocks(d.title, e.file, VobOffset(size_vob, v), sz, errAt)

\* The descriptor of DVDCmpTitleVobX at its return: every return after the
\* open (line 2300) closes fd.
CmpTitleVobXHandles(tr, info, v, fail) ==
  LET size_vob == info.size_vob
      e == tr[VobName(v)]
  IN
  IF /\ Len(size_vob) >= v
     /\ size_vob[1] # 0 /\ size_vob[v] # 0
     /\ size_vob[v] % DVD_VIDEO_LB_LEN = 0
     /\ PartsAligned(size_vob, v)
     /\ fail = "none"
     /\ e.kind = "reg"
     /\ FileBytes(e.file) = size_vob[v]
  THEN <<Handle(VobName(v), 1)>> ELSE << >>

\* A second run of the program over the same disc and directory with
\* compare_only set, after a mirror that returned 0.
StartCompare ==
  /\ step = "finished" /\ ~compare_only /\ mirror_result = 0
  /\ compare_only' = TRUE
  /\ step' = "ifo" /\ vob' = 0
  /\ NoCall
  /\ UNCHANGED <<fill_gaps, title_set_info, dvd, tree, existing,
                 mirror_result, cmp_result, ifo_result, copied, io_errors,
                 handles>>
  /\ UNCHANGED <<cellVars, guessVars>>
  /\ UNCHANGED discVars

\* DVDMirrorTitleX, lines 2901-2904.
DVDCmpIfoBup ==
  /\ step = "ifo" /\ compare_only
  /\ \E fail \in CmpIfoFailures, e1 \in 0..1, e2 \in 0..1 :
       /\ io_errors' = (io_errors \/ fail # "none" \/ e1 # 0 \/ e2 # 0)
       /\ handles' = CmpIfoBupHandles(tree, title_set_info, dvd, fail, e1)
       /\ IF CmpIfoBup(tree, title_set_info, dvd, fail, e1, e2) = 0
          THEN step' = "menu" /\ UNCHANGED cmp_result
          ELSE step' = "finished" /\ cmp_result' = 1
  /\ NoCall
  /\ UNCHANGED <<fill_gaps, compare_only, title_set_info, dvd, tree, existing,
                 vob, mirror_result, ifo_result, copied>>
  /\ UNCHANGED <<cellVars, guessVars>>
  /\ UNCHANGED discVars

\* DVDMirrorTitleX, lines 2909-2912.
DVDCmpMenu ==
  /\ step = "menu" /\ compare_only
  /\ \E fail \in {"none", "DVDOpenFile", "open"}, errAt \in 0..1 :
       /\ io_errors' = (io_errors \/ fail # "none" \/ errAt # 0)
       /\ handles' = CmpMenuHandles(tree, title_set_info, fail)
       /\ IF CmpMenu(tree, title_set_info, dvd, fail, errAt) = 0
          THEN step' = "vob" /\ vob' = 1 /\ UNCHANGED cmp_result
          ELSE step' = "finished" /\ cmp_result' = 1 /\ UNCHANGED vob
  /\ NoCall
  /\ UNCHANGED <<fill_gaps, compare_only, title_set_info, dvd, tree, existing,
                 mirror_result, ifo_result, copied>>
  /\ UNCHANGED <<cellVars, guessVars>>
  /\ UNCHANGED discVars

\* DVDMirrorTitleX, lines 2925-2928, for part vob.
DVDCmpTitleVobX ==
  /\ step = "vob" /\ compare_only
  /\ vob <= Len(title_set_info.size_vob)
  /\ \E fail \in {"none", "DVDOpenFile", "open"}, errAt \in 0..1 :
       /\ io_errors' = (io_errors \/ fail # "none" \/ errAt # 0)
       /\ handles' = CmpTitleVobXHandles(tree, title_set_info, vob, fail)
       /\ IF CmpTitleVobX(tree, title_set_info, dvd, vob, fail, errAt) = 0
          THEN vob' = vob + 1 /\ UNCHANGED <<step, cmp_result>>
          ELSE step' = "finished" /\ cmp_result' = 1 /\ UNCHANGED vob
  /\ NoCall
  /\ UNCHANGED <<fill_gaps, compare_only, title_set_info, dvd, tree, existing,
                 mirror_result, ifo_result, copied>>
  /\ UNCHANGED <<cellVars, guessVars>>
  /\ UNCHANGED discVars

NextMirror ==
  \/ DVDCopyIfoBup
  \/ DVDCopyMenuOpen
  \/ DVDCopyMenuClose
  \/ DVDCopyTitleVobXOpen
  \/ DVDCopyTitleVobXClose
  \/ DVDMirrorTitleXReturn
  \/ StartCompare
  \/ DVDCmpIfoBup
  \/ DVDCmpMenu
  \/ DVDCmpTitleVobX
  \/ DVDCopyBlocksIter
  \/ DVDCopyBlocksReturn
  \/ FillGapsScan
  \/ FillGapsVerify
  \/ GapProcessSegmentIter
  \/ FillGapsFinish

SpecMirror == InitMirror /\ [][NextMirror]_vars

(* ------------------------------------------------------------------ *)
(* The whole disc (DVDMirror)                                          *)
(* ------------------------------------------------------------------ *)

\* Title sets 0 .. number_of_title_sets of the disc.
number_of_title_sets == MaxOffset

\* The title sets of these discs have parts of one block each.
DiscInventories ==
  {inv \in Inventories :
     \A k \in 1..Len(inv.size_vob) : inv.size_vob[k] = DVD_VIDEO_LB_LEN}

InitDisc ==
  /\ fill_gaps \in BOOLEAN
  /\ compare_only = FALSE
  /\ errorstrat \in Strategies
  /\ gap_strategy = GAP_STRATEGY_FORWARD
  /\ dvd = [info |-> FullDisc, menu |-> FullDisc, title |-> FullDisc]
  /\ title_set_info \in DiscInventories
  /\ \E p \in TreePatterns : tree = ExistingTree(p, title_set_info, dvd)
  /\ existing = tree
  /\ step = "ifo" /\ vob = 0
  /\ mirror_result = -1 /\ cmp_result = -1 /\ ifo_result = -1
  /\ copied = {} /\ io_errors = FALSE /\ handles = << >>
  /\ dvd_file = FullDisc /\ start_offset = 0 /\ size = 0
  /\ destination = EmptyFile /\ pc = "idle" /\ result = -1
  /\ CopyIdle /\ RefreshLocalsIdle
  /\ CellsIdle

\* Variant of the loop test of DVDMirror that goes on after a failure.
DVDMirrorStops_Never(ret) == FALSE

\* if ( DVDMirrorTitleX(...) != 0 ) return(1)
DVDMirrorStops(ret) == ret # 0

\* The loop of DVDMirror after DVDMirrorTitleX returned: stop at a failure,
\* else go on to the next title set, whose files are in the same condition
\* as those of the first, or return 0 after the last.
DVDMirrorLoop ==
  /\ step = "finished" /\ ~compare_only /\ disc_result = -1
  /\ IF DVDMirrorStops(mirror_result)
     THEN /\ disc_result' = 1
          /\ UNCHANGED <<title_set, step, vob, mirror_result, ifo_result,
                         copied, tree>>
     ELSE IF title_set < number_of_title_sets
     THEN /\ title_set' = title_set + 1
          /\ step' = "ifo" /\ vob' = 0
          /\ mirror_result' = -1 /\ ifo_result' = -1
          /\ copied' = {} /\ tree' = existing
          /\ UNCHANGED disc_result
     ELSE /\ disc_result' = 0
          /\ UNCHANGED <<title_set, step, vob, mirror_result, ifo_result,
                         copied, tree>>
  /\ NoCall
  /\ UNCHANGED <<fill_gaps, compare_only, title_set_info, dvd, existing,
                 cmp_result, io_errors, handles, calls, request>>
  /\ UNCHANGED <<cellVars, guessVars>>

NextDisc ==
  \/ DVDCopyIfoBup
  \/ DVDCopyMenuOpen
  \/ DVDCopyMenuClose
  \/ DVDCopyTitleVobXOpen
  \/ DVDCopyTitleVobXClose
  \/ DVDMirrorTitleXReturn
  \/ DVDCopyBlocksIter
  \/ DVDCopyBlocksReturn
  \/ FillGapsScan
  \/ FillGapsVerify
  \/ GapProcessSegmentIter
  \/ FillGapsFinish
  \/ DVDMirrorLoop

SpecDisc == InitDisc /\ [][NextDisc]_vars

(* ------------------------------------------------------------------ *)
(* Title sets whose menu VOB has a misaligned size                     *)
(* ------------------------------------------------------------------ *)

\* Inventories whose size_menu may be one byte over a multiple of
\* DVD_VIDEO_LB_LEN.
MenuInventories ==
  DiscInventories \cup
  {[inv EXCEPT !.size_menu = k * DVD_VIDEO_LB_LEN + 1] :
     inv \in DiscInventories, k \in 0..MaxOffset}

InitMenu ==
  /\ fill_gaps \in BOOLEAN
  /\ compare_only = FALSE
  /\ errorstrat \in Strategies
  /\ gap_strategy = GAP_STRATEGY_FORWARD
  /\ dvd = [info |-> FullDisc, menu |-> FullDisc, title |-> FullDisc]
  /\ title_set_info \in MenuInventories
  /\ \E p \in TreePatterns : tree = ExistingTree(p, title_set_info, dvd)
  /\ existing = tree
  /\ step = "ifo" /\ vob = 0
  /\ mirror_result = -1 /\ cmp_result = -1 /\ ifo_result = -1
  /\ copied = {} /\ io_errors = FALSE /\ handles = << >>
  /\ dvd_file = FullDisc /\ start_offset = 0 /\ size = 0
  /\ destination = EmptyFile /\ pc = "idle" /\ result = -1
  /\ CopyIdle /\ RefreshLocalsIdle
  /\ CellsIdle

SpecMenu == InitMenu /\ [][NextMirror]_vars

(* ------------------------------------------------------------------ *)
(* Chapter extraction: the cell ranges (DVDMirrorChapters)             *)
(* ------------------------------------------------------------------ *)

\* Sectors of the title VOB address space a cell may name.
MaxSector == MaxBlocks + 1

\* The longest cell list of the sorting specification.
MaxCells == MaxBlocks

\* cell_playback entries: <<first_sector, last_sector>>, first <= last.
CellPairs == {c \in (0..MaxSector) \X (0..MaxSector) : c[1] <= c[2]}

CellLists(n) == UNION {[1..k -> CellPairs] : k \in 1..n}

\* The title VOBs as DVDReadBlocks sees them: sector s carries label s + 1.
CellDisc == [s \in 0..MaxSector |-> s + 1]

\* The exchange of bsort_min_to_max: both arrays swap the same two slots.
SwapCells(s, a, b) ==
  [sector |-> [s.sector EXCEPT ![a] = s.sector[b], ![b] = s.sector[a]],
   title  |-> [s.title  EXCEPT ![a] = s.title[b],  ![b] = s.title[a]]]

\* The two nested loops of bsort_min_to_max, i and j both over the whole
\* array (1-based here).
RECURSIVE BsortLoop(_, _, _)
BsortLoop(s, a, b) ==
  IF a > Len(s.sector) THEN s
  ELSE IF b > Len(s.sector) THEN BsortLoop(s, a + 1, 1)
  ELSE BsortLoop(IF s.sector[a] < s.sector[b] THEN SwapCells(s, a, b) ELSE s,
                 a, b + 1)

bsort_min_to_max(sector, title) ==
  BsortLoop([sector |-> sector, title |-> title], 1, 1)

\* Variant of align_end_sector that tolerates an end equal to the next start.
align_end_sector_Strict(cs, ce) ==
  [k \in 1..Len(ce) |->
     IF k < Len(ce) /\ ce[k] > cs[k + 1] THEN cs[k + 1] - 1 ELSE ce[k]]

\* align_end_sector: an end that reaches the next start is pulled back to the
\* sector before it. Iteration k reads only start[k+1] and end[k].
align_end_sector(cs, ce) ==
  [k \in 1..Len(ce) |->
     IF k < Len(ce) /\ ce[k] >= cs[k + 1] THEN cs[k + 1] - 1 ELSE ce[k]]

\* The cell arrays as DVDMirrorChapters fills them from the program chain.
ChaptersStart(list, fg) ==
  /\ CopyIdle /\ RefreshIdle /\ MirrorIdle(fg)
  /\ dvd_file = CellDisc /\ start_offset = 0 /\ size = 0
  /\ errorstrat = STRATEGY_ABORT
  /\ destination = EmptyFile /\ result = -1
  /\ cells = list
  /\ cell_start_sector = [k \in 1..Len(list) |-> list[k][1]]
  /\ cell_end_sector = [k \in 1..Len(list) |-> list[k][2]]
  /\ cell_index = 0 /\ left = 0 /\ soffset = 0
  /\ failed_on_read = FALSE
  /\ DiscIdle

InitSort ==
  \E list \in CellLists(MaxCells) :
    /\ ChaptersStart(list, FALSE)
    /\ pc = "bsort"

DVDMirrorChaptersSort ==
  /\ pc = "bsort"
  /\ LET s == bsort_min_to_max(cell_start_sector, cell_end_sector)
     IN /\ cell_start_sector' = s.sector
        /\ cell_end_sector' = s.title
  /\ pc' = "align"
  /\ UNCHANGED <<ioVars, destination, result, copyVars, refreshVars,
                 failed_on_read, mirrorVars, discVars, guessVars, cells,
                 cell_index, left, soffset>>

DVDMirrorChaptersAlign ==
  /\ pc = "align"
  /\ cell_end_sector' = align_end_sector(cell_start_sector, cell_end_sector)
  /\ pc' = "cells_open"
  /\ UNCHANGED <<ioVars, destination, result, copyVars, refreshVars,
                 failed_on_read, mirrorVars, discVars, guessVars, cells,
                 cell_start_sector, cell_index, left, soffset>>

NextSort == DVDMirrorChaptersSort \/ DVDMirrorChaptersAlign

SpecSort == InitSort /\ [][NextSort]_vars

(* ------------------------------------------------------------------ *)
(* Chapter extraction: writing the ranges (DVDWriteCells)              *)
(* ------------------------------------------------------------------ *)

\* The target directory before the extraction: nothing there, a VOB left by
\* another disc, a VOB holding blank blocks, a VOB with a few stray bytes, a
\* VOB already holding the first block of the extraction, a VOB holding the
\* first bytes of that block only (a copy cut off inside its first block), a
\* VOB of a few zero bytes, or a directory in the place of the first VOB.
CellTreePatterns ==
  {"new", "stale", "blank", "partial", "copied", "cut", "hole", "blocked"}

FirstSector(list) ==
  CHOOSE s \in {list[k][1] : k \in 1..Len(list)} :
    \A k \in 1..Len(list) : s <= list[k][1]

CellTree(p, list) ==
  [n \in Names |->
     IF n # VobName(1) \/ p = "new" THEN NoFile
     ELSE IF p = "blocked" THEN NotRegular
     ELSE IF p = "stale"
          THEN Regular([blocks |-> << Foreign >>, tail |-> 0, tailv |-> 0])
     ELSE IF p = "blank"
          THEN Regular([blocks |-> Zeros(MAX_VOB_SIZE), tail |-> 0, tailv |-> 0])
     ELSE IF p = "partial"
          THEN Regular([blocks |-> << >>, tail |-> 1, tailv |-> Foreign])
     ELSE IF p = "hole"
          THEN Regular([blocks |-> << >>, tail |-> 1, tailv |-> 0])
     ELSE IF p = "cut"
          THEN Regular([blocks |-> << >>, tail |-> 1,
                        tailv |-> CellDisc[FirstSector(list)]])
     ELSE Regular([blocks |-> << CellDisc[FirstSector(list)] >>,
                   tail |-> 0, tailv |-> 0])]

\* Sum of last - first over the cells: no run of DVDWriteCells writes more.
RECURSIVE CellBlocks(_)
CellBlocks(list) ==
  IF Len(list) = 0 THEN 0
  ELSE (list[1][2] - list[1][1]) + CellBlocks(Tail(list))

InitCells ==
  \E list \in CellLists(MaxParts), fg \in BOOLEAN, p \in CellTreePatterns :
    /\ CellBlocks(list) <= MaxParts * MAX_VOB_SIZE
    /\ CopyIdle /\ RefreshIdle
    /\ dvd_file = CellDisc /\ start_offset = 0 /\ size = 0
    /\ errorstrat = STRATEGY_ABORT
    /\ destination = EmptyFile /\ result = -1
    /\ fill_gaps = fg /\ compare_only = FALSE
    /\ title_set_info = NoTitleSet
    /\ dvd = [info |-> FullDisc, menu |-> FullDisc, title |-> FullDisc]
    /\ tree = CellTree(p, list)
    /\ existing = tree
    /\ step = "idle" /\ vob = 0
    /\ mirror_result = -1 /\ cmp_result = -1 /\ ifo_result = -1
    /\ copied = {} /\ io_errors = FALSE /\ handles = << >>
    /\ cells = list
    /\ cell_start_sector = [k \in 1..Len(list) |-> list[k][1]]
    /\ cell_end_sector = [k \in 1..Len(list) |-> list[k][2]]
    /\ cell_index = 0 /\ left = 0 /\ soffset = 0
    /\ failed_on_read = FALSE
    /\ DiscIdle
    /\ pc = "bsort"

\* unlink of VTS_XX_1.VOB .. VTS_XX_10.VOB: regular files go, a directory
\* stays.
UnlinkVobs(tr) ==
  [n \in Names |->
     IF n[1] = "VOB" /\ tr[n].kind = "reg" THEN NoFile ELSE tr[n]]

\* open with O_CREAT and without O_TRUNC (O_APPEND or O_RDWR): the content of
\* a regular file stays, a missing file is created empty.
OpenKeep(e) == IF e.kind = "reg" THEN e.file ELSE EmptyFile

\* ftruncate(streamout, size_blocks * DVD_VIDEO_LB_LEN)
Ftruncate(f, n) ==
  IF Len(f.blocks) >= n
  THEN [blocks |-> SubSeq(f.blocks, 1, n), tail |-> 0, tailv |-> 0]
  ELSE IF f.tail > 0
  THEN [blocks |-> f.blocks \o << PaddedTail(f) >>
                     \o Zeros(n - Len(f.blocks) - 1),
        tail |-> 0, tailv |-> 0]
  ELSE [blocks |-> f.blocks \o Zeros(n - Len(f.blocks)),
        tail |-> 0, tailv |-> 0]

\* finalize_vob_file: nothing in refresh mode, else cut the file at size.
finalize_vob_file(f, n, fg) == IF fg THEN f ELSE Ftruncate(f, n)

\* The block loop of the refresh branch over one chunk: a full or partial
\* existing block that is not blank must equal the disc block; runs of blank
\* or missing blocks are written from the disc buffer. st.pending is
\* pending_start, forig what read_existing_range saw.
RECURSIVE CellChunkLoop(_, _, _, _, _, _)
CellChunkLoop(st, idx, data, sz, forig, wok) ==
  LET n == Len(data)
      k == idx - 1
      existing_blocks == Min(n, Max(0, Len(forig.blocks) - sz))
      partial_bytes == IF Len(forig.blocks) >= sz /\ Len(forig.blocks) - sz < n
                       THEN forig.tail ELSE 0
      has_full == k < existing_blocks
      has_partial == ~has_full /\ k = existing_blocks /\ partial_bytes > 0
      old == IF has_full THEN forig.blocks[sz + k + 1]
             ELSE IF has_partial THEN forig.tailv ELSE 0
      block_blank == buffer_is_blank(old)
      flush(upto) ==
        IF st.pending = NoPending THEN st
        ELSE IF ~wok THEN [st EXCEPT !.status = "werr"]
        ELSE [st EXCEPT
                !.file = PWrite(@, sz + st.pending,
                                SubSeq(data, st.pending + 1, upto)),
                !.pending = NoPending]
  IN IF st.status # "run" THEN st
     ELSE IF idx > n THEN flush(n)
     ELSE IF ~block_blank /\ old # data[idx]
          THEN [st EXCEPT !.status = "mismatch"]
     ELSE IF block_blank
          THEN CellChunkLoop(IF st.pending = NoPending
                             THEN [st EXCEPT !.pending = k] ELSE st,
                             idx + 1, data, sz, forig, wok)
     ELSE CellChunkLoop(flush(k), idx + 1, data, sz, forig, wok)

RefreshChunk(f, sz, data, wok) ==
  CellChunkLoop([file |-> f, pending |-> NoPending, status |-> "run"],
                1, data, sz, f, wok)

\* write(streamout, buffer, have_read * DVD_VIDEO_LB_LEN) on an O_APPEND
\* descriptor.
FreshChunk(f, data, wok) ==
  IF wok THEN [file |-> AppendBlocks(f, data), pending |-> NoPending,
               status |-> "run"]
  ELSE [file |-> f, pending |-> NoPending, status |-> "werr"]

\* left = cell_end_sector[i] - cell_start_sector[i]
CellLength(first, last) == last - first

\* to_read as the while loop clips it.
CellToRead(lft, sz) ==
  LET a == IF lft + sz > MAX_VOB_SIZE THEN MAX_VOB_SIZE - sz ELSE lft
  IN IF a > BUFFER_SIZE THEN BUFFER_SIZE ELSE a

cellLocals == <<cell_index, left, soffset>>

cellFrame ==
  <<dvd_file, start_offset, errorstrat, destination, offset, remaining,
    short_read, refreshVars, failed_on_read, fill_gaps, compare_only,
    title_set_info, dvd, existing, step,
    mirror_result, cmp_result, ifo_result, copied, cells, discVars,
    guessVars>>

\* Entry of DVDWriteCells up to the first range: the file name, the unlinks
\* of a fresh run, the open of VTS_XX_1.VOB and DVDOpenFile.
DVDWriteCellsOpen ==
  /\ pc = "cells_open"
  /\ \E fail \in {"none", "malloc", "open", "DVDOpenFile"} :
       LET unlinked == IF fill_gaps THEN tree ELSE UnlinkVobs(tree)
           name == VobName(1)
           opened == [unlinked EXCEPT ![name] = Regular(OpenKeep(@))]
       IN IF fail = "malloc"
          THEN /\ tree' = tree /\ handles' = << >>
               /\ result' = 1 /\ pc' = "done" /\ io_errors' = TRUE
          ELSE IF fail = "open" \/ unlinked[name].kind = "dir"
          THEN /\ tree' = unlinked /\ handles' = << >>
               /\ result' = 1 /\ pc' = "done" /\ io_errors' = TRUE
          ELSE IF fail = "DVDOpenFile"
          THEN /\ tree' = opened /\ handles' = <<Handle(name, 1)>>
               /\ result' = 1 /\ pc' = "done" /\ io_errors' = TRUE
          ELSE /\ tree' = opened /\ handles' = <<Handle(name, 0)>>
               /\ result' = -1 /\ pc' = "cells_loop"
               /\ UNCHANGED io_errors
  /\ vob' = 1 /\ size' = 0
  /\ UNCHANGED <<cellFrame, to_read, cell_start_sector, cell_end_sector,
                 cellLocals>>

\* Head of the for loop: the next range.
DVDWriteCellsNextCell ==
  /\ pc = "cells_loop" /\ left <= 0
  /\ cell_index < Len(cell_start_sector)
  /\ cell_index' = cell_index + 1
  /\ left' = CellLength(cell_start_sector[cell_index + 1],
                        cell_end_sector[cell_index + 1])
  /\ soffset' = cell_start_sector[cell_index + 1]
  /\ UNCHANGED <<cellFrame, tree, vob, size, to_read, pc, result, io_errors,
                 handles, cell_start_sector, cell_end_sector>>

\* One pass of the while loop: clip to_read, read, write the chunk, advance,
\* and change to the next output file at MAX_VOB_SIZE.
DVDWriteCellsIter ==
  /\ pc = "cells_loop" /\ left > 0
  /\ LET req == CellToRead(left, size)
         name == VobName(vob)
     IN \E have_read \in -1..req, wok \in BOOLEAN, fok \in BOOLEAN,
           ook \in BOOLEAN :
       LET data == ReadData(dvd_file, soffset, have_read)
           st == IF fill_gaps
                 THEN RefreshChunk(tree[name].file, size, data, wok)
                 ELSE FreshChunk(tree[name].file, data, wok)
           nsize == size + have_read
           nleft == left - have_read
           split == nsize >= MAX_VOB_SIZE /\ nleft > 0
           next == VobName(vob + 1)
           stop(tr, ext) ==
             /\ tree' = tr /\ result' = 1 /\ pc' = "done"
             /\ handles' = CloseLast(handles)
             /\ io_errors' = (io_errors \/ ext)
             /\ UNCHANGED <<vob, size, left, soffset>>
       IN /\ to_read' = req
          /\ IF have_read <= 0 THEN stop(tree, req > 0)
             ELSE IF st.status = "mismatch"
             THEN stop([tree EXCEPT ![name].file = st.file], FALSE)
             ELSE IF st.status = "werr"
             THEN stop([tree EXCEPT ![name].file = st.file], TRUE)
             ELSE LET written == [tree EXCEPT ![name].file = st.file]
                  IN /\ soffset' = soffset + have_read
                     /\ left' = nleft
                     /\ IF ~split
                        THEN /\ tree' = written /\ size' = nsize
                             /\ UNCHANGED <<vob, pc, result, io_errors,
                                            handles>>
                        ELSE IF ~fill_gaps /\ ~fok
                        THEN /\ tree' = written /\ size' = nsize
                             /\ result' = 1 /\ pc' = "done"
                             /\ io_errors' = TRUE
                             /\ handles' = CloseLast(handles)
                             /\ UNCHANGED vob
                        ELSE LET cut == [written EXCEPT ![name].file =
                                   finalize_vob_file(@, nsize, fill_gaps)]
                             IN /\ vob' = vob + 1 /\ size' = 0
                                /\ IF ~ook \/ cut[next].kind = "dir"
                                   THEN /\ tree' = cut
                                        /\ result' = 1 /\ pc' = "done"
                                        /\ io_errors' = TRUE
                                        /\ handles' = CloseLast(handles)
                                   ELSE /\ tree' = [cut EXCEPT ![next] =
                                                 Regular(OpenKeep(@))]
                                        /\ handles' =
                                             Append(CloseLast(handles),
                                                    Handle(next, 0))
                                        /\ UNCHANGED <<pc, result, io_errors>>
  /\ UNCHANGED <<cellFrame, cell_start_sector, cell_end_sector, cell_index>>

\* After the last range: finalize_vob_file and the cleanup.
DVDWriteCellsFinish ==
  /\ pc = "cells_loop" /\ left <= 0
  /\ cell_index >= Len(cell_start_sector)
  /\ \E fok \in BOOLEAN :
       IF ~fill_gaps /\ ~fok
       THEN /\ result' = 1 /\ io_errors' = TRUE /\ UNCHANGED tree
       ELSE /\ tree' = [tree EXCEPT ![VobName(vob)].file =
                          finalize_vob_file(@, size, fill_gaps)]
            /\ result' = 0 /\ UNCHANGED io_errors
  /\ handles' = CloseLast(handles)
  /\ pc' = "done"
  /\ UNCHANGED <<cellFrame, vob, size, to_read, cell_start_sector,
                 cell_end_sector, cellLocals>>

NextCells ==
  \/ DVDMirrorChaptersSort
  \/ DVDMirrorChaptersAlign
  \/ DVDWriteCellsOpen
  \/ DVDWriteCellsNextCell
  \/ DVDWriteCellsIter
  \/ DVDWriteCellsFinish

SpecCells == InitCells /\ [][NextCells]_vars

(* ------------------------------------------------------------------ *)
(* Requests for one title set or one title                             *)
(* ------------------------------------------------------------------ *)

\* Titles 1 .. number_of_titles of the disc (DVDGetInfo).
number_of_titles == MaxOffset + 1

\* What reading titles_info->titles[titles - 1] and going on can lead to.
\* Within the array the IFO of the title's set opens or fails to open. Past
\* the end of the array the read is undefined: the value found may name no
\* title set (ifoOpen fails), may name one (the extraction goes on with
\* whatever cells that leads to), or the read faults.
TitleEntryOutcomes(n) ==
  IF n >= 1 /\ n <= number_of_titles
  THEN {"ifoOpen_fails", "proceed"}
  ELSE {"ifoOpen_fails", "proceed", "fault"}

InitRequest ==
  /\ dvd = [info |-> FullDisc, menu |-> FullDisc, title |-> FullDisc]
  /\ \E kind \in {"title_set", "titles"} :
       /\ request \in [kind : {kind}, n : 1..(number_of_titles + 1)]
       /\ IF kind = "title_set"
          THEN /\ step = "request" /\ pc = "idle"
               /\ title_set_info \in DiscInventories
               /\ \E p \in TreePatterns :
                    tree = ExistingTree(p, title_set_info, dvd)
               /\ dvd_file = FullDisc
               /\ cells = << >>
          ELSE /\ step = "idle" /\ pc = "request"
               /\ title_set_info = NoTitleSet
               /\ cells \in CellLists(1)
               /\ \E p \in CellTreePatterns : tree = CellTree(p, cells)
               /\ dvd_file = CellDisc
  /\ fill_gaps \in BOOLEAN
  /\ compare_only = FALSE
  /\ errorstrat \in {STRATEGY_ABORT, STRATEGY_SKIP_BLOCK}
  /\ gap_strategy = GAP_STRATEGY_FORWARD
  /\ existing = tree
  /\ vob = 0
  /\ mirror_result = -1 /\ cmp_result = -1 /\ ifo_result = -1
  /\ copied = {} /\ io_errors = FALSE /\ handles = << >>
  /\ start_offset = 0 /\ size = 0
  /\ destination = EmptyFile /\ result = -1
  /\ CopyIdle /\ RefreshLocalsIdle
  /\ cell_start_sector = << >> /\ cell_end_sector = << >>
  /\ cell_index = 0 /\ left = 0 /\ soffset = 0
  /\ failed_on_read = FALSE
  /\ title_set = 0 /\ calls = << >> /\ disc_result = -1
  /\ GuessIdle

\* DVDMirrorTitleSet up to the call of DVDMirrorTitleX.
DVDMirrorTitleSetEntry ==
  /\ step = "request" /\ request.kind = "title_set"
  /\ IF request.n > number_of_title_sets
     THEN /\ disc_result' = 1 /\ step' = "returned"
          /\ UNCHANGED title_set
     ELSE /\ title_set' = request.n /\ step' = "ifo"
          /\ UNCHANGED disc_result
  /\ NoCall
  /\ UNCHANGED <<fill_gaps, compare_only, title_set_info, dvd, tree, existing,
                 vob, mirror_result, cmp_result, ifo_result, copied,
                 io_errors, handles, calls, request>>
  /\ UNCHANGED <<cellVars, guessVars>>

\* DVDMirrorTitleSet after DVDMirrorTitleX returned.
DVDMirrorTitleSetReturn ==
  /\ step = "finished" /\ request.kind = "title_set"
  /\ disc_result' = (IF mirror_result # 0 THEN 1 ELSE 0)
  /\ step' = "returned"
  /\ NoCall
  /\ UNCHANGED <<fill_gaps, compare_only, title_set_info, dvd, tree, existing,
                 vob, mirror_result, cmp_result, ifo_result, copied,
                 io_errors, handles, calls, request, title_set>>
  /\ UNCHANGED <<cellVars, guessVars>>

\* DVDMirrorTitles and DVDMirrorChapters up to the cell arrays: the entry
\* titles[titles - 1] is read without a test of titles against
\* number_of_titles.
DVDMirrorTitlesEntry ==
  /\ pc = "request" /\ request.kind = "titles"
  /\ \E outcome \in TitleEntryOutcomes(request.n) :
       IF outcome = "proceed"
       THEN /\ cell_start_sector' = [k \in 1..Len(cells) |-> cells[k][1]]
            /\ cell_end_sector' = [k \in 1..Len(cells) |-> cells[k][2]]
            /\ pc' = "bsort"
            /\ UNCHANGED disc_result
       ELSE IF outcome = "fault"
       THEN /\ pc' = "fault"
            /\ UNCHANGED <<cell_start_sector, cell_end_sector, disc_result>>
       ELSE /\ pc' = "returned" /\ disc_result' = 1
            /\ UNCHANGED <<cell_start_sector, cell_end_sector>>
  /\ UNCHANGED <<ioVars, destination, result, copyVars, refreshVars,
                 failed_on_read, mirrorVars, cells, cell_index, left,
                 soffset, title_set, calls, request, guessVars>>

\* DVDMirrorChapters and DVDMirrorTitles after DVDWriteCells returned.
DVDMirrorChaptersReturn ==
  /\ pc = "done" /\ request.kind = "titles"
  /\ disc_result' = (IF result # 0 THEN 1 ELSE 0)
  /\ pc' = "returned"
  /\ UNCHANGED <<ioVars, destination, result, copyVars, refreshVars,
                 failed_on_read, mirrorVars, cellVars, title_set, calls,
                 request, guessVars>>

NextRequest ==
  \/ DVDMirrorTitleSetEntry
  \/ DVDCopyIfoBup
  \/ DVDCopyMenuOpen
  \/ DVDCopyMenuClose
  \/ DVDCopyTitleVobXOpen
  \/ DVDCopyTitleVobXClose
  \/ DVDMirrorTitleXReturn
  \/ DVDCopyBlocksIter
  \/ DVDCopyBlocksReturn
  \/ FillGapsScan
  \/ FillGapsVerify
  \/ GapProcessSegmentIter
  \/ FillGapsFinish
  \/ DVDMirrorTitleSetReturn
  \/ DVDMirrorTitlesEntry
  \/ DVDMirrorChaptersSort
  \/ DVDMirrorChaptersAlign
  \/ DVDWriteCellsOpen
  \/ DVDWriteCellsNextCell
  \/ DVDWriteCellsIter
  \/ DVDWriteCellsFinish
  \/ DVDMirrorChaptersReturn

SpecRequest == InitRequest /\ [][NextRequest]_vars

(* ------------------------------------------------------------------ *)
(* The main feature guess (DVDGetInfo)                                 *)
(* ------------------------------------------------------------------ *)

\* Title sets of the discs the guesser is run on; title k is the one title
\* of title set k.
vmg_nr_of_title_sets == MaxBlocks

\* What the VMG IFO tells about one title set, with the size of its title
\* VOBs: the audio streams, subpicture streams and channels come as one
\* number, the chapters are those of its title.
VtsAttributes ==
  [size : 1..(MaxOffset + 1), nr_of_ptts : 1..(MaxOffset + 1),
   streams : {1, 2}]

\* The discs: every title set is 16:9, or title set 1 alone is 4:3; the
\* preferred aspect ratio is 16:9.
GuessDiscs ==
  {[vts |-> [k \in 1..vmg_nr_of_title_sets |->
               [size |-> f[k].size, nr_of_ptts |-> f[k].nr_of_ptts,
                nr_of_vtstt_audio_streams |-> f[k].streams,
                nr_of_vtstt_subp_streams |-> f[k].streams,
                channels |-> f[k].streams,
                display_aspect_ratio |->
                  IF mixed /\ k = 1 THEN "4:3" ELSE "16:9"]],
    aspect |-> "16:9"] :
     f \in [1..vmg_nr_of_title_sets -> VtsAttributes], mixed \in BOOLEAN}

InitGuess ==
  /\ CopyIdle /\ RefreshIdle /\ MirrorIdle(FALSE)
  /\ dvd_file = << >> /\ start_offset = 0 /\ size = 0
  /\ errorstrat = STRATEGY_ABORT
  /\ destination = EmptyFile /\ result = -1
  /\ cells = << >> /\ cell_start_sector = << >> /\ cell_end_sector = << >>
  /\ cell_index = 0 /\ left = 0 /\ soffset = 0
  /\ failed_on_read = FALSE
  /\ title_set = 0 /\ calls = << >> /\ disc_result = -1
  /\ request = [kind |-> "disc", n |-> 0]
  /\ vmg_ifo \in GuessDiscs
  /\ titles_info = NoGuess
  /\ pc = "guess"

\* The two nested loops of bsort_max_to_min, i and j both over the whole
\* array (1-based here): the exchange happens when sector[i] > sector[j].
RECURSIVE BsortMaxLoop(_, _, _)
BsortMaxLoop(s, a, b) ==
  IF a > Len(s.sector) THEN s
  ELSE IF b > Len(s.sector) THEN BsortMaxLoop(s, a + 1, 1)
  ELSE BsortMaxLoop(IF s.sector[a] > s.sector[b] THEN SwapCells(s, a, b)
                    ELSE s,
                    a, b + 1)

bsort_max_to_min(sector, title) ==
  BsortMaxLoop([sector |-> sector, title |-> title], 1, 1)

\* A size check made of the first division alone: the reference is less
\* than twice the target.
CheckSizeArray_RatioOnly(size_array, reference, target) ==
  /\ size_array[target] # 0
  /\ size_array[reference] \div size_array[target] = 1

\* CheckSizeArray: the target is in the size range of the reference (arrays
\* 1-based here).
CheckSizeArray(size_array, reference, target) ==
  /\ size_array[target] # 0
  /\ size_array[reference] \div size_array[target] = 1
  /\ (size_array[reference] * 2 - size_array[target])
       \div size_array[target] = 1
  /\ (size_array[reference] % size_array[target]) * 3 < size_array[reference]

\* One of the three loops of CheckAudioSubChannels: 1 when the candidate is
\* met before an entry smaller than the reference entry.
RECURSIVE FoundAmongTop(_, _, _, _, _)
FoundAmongTop(count_array, title_set_array, reference, candidate, i) ==
  IF i > Len(count_array) THEN 0
  ELSE IF count_array[i] < count_array[reference] THEN 0
  ELSE IF candidate = title_set_array[i] THEN 1
  ELSE FoundAmongTop(count_array, title_set_array, reference, candidate,
                     i + 1)

CheckAudioSubChannels(audio, sub, channel, reference, candidate) ==
  FoundAmongTop(audio.sector, audio.title, reference, candidate, 1)
  + FoundAmongTop(sub.sector, sub.title, reference, candidate, 1)
  + FoundAmongTop(channel.sector, channel.title, reference, candidate, 1)

\* The search of the candidate among the first four entries of the sorted
\* chapter array: its position, or the value found_chapter started with.
FoundChapter(title_set_chapter_array, candidate, none) ==
  LET top == {i \in 1..Min(Len(title_set_chapter_array), 4) :
                candidate = title_set_chapter_array[i]}
  IN IF top = {} THEN none ELSE CHOOSE i \in top : \A j \in top : i <= j

\* The chapters_1 / chapters_2 loops: the most chapters of a title of the
\* title set ts (title k is in title set k).
ChaptersOf(info, ts) ==
  LET own == {info.vts[k].nr_of_ptts : k \in {j \in DOMAIN info.vts : j = ts}}
  IN IF own = {} THEN 0 ELSE CHOOSE c \in own : \A d \in own : d <= c

\* The first loop of the multi-episode rule: i counts the targets 1, 2, ...
\* that pass CheckSizeArray against entry 0. With i = title_sets - 1 the
\* target is one past the end of size_size_array, and what is read there
\* decides the test: past_end is its outcome.
RECURSIVE NumberOfMulti(_, _, _)
NumberOfMulti(size_size_array, past_end, i) ==
  IF i >= Len(size_size_array) THEN i
  ELSE IF i + 2 > Len(size_size_array)
         THEN (IF past_end THEN i + 1 ELSE i)
  ELSE IF ~CheckSizeArray(size_size_array, 1, i + 2) THEN i
  ELSE NumberOfMulti(size_size_array, past_end, i + 1)

\* The target positions i + 1 (counted from 0 as in the program) that the
\* loop of lines 1737-1741 hands to CheckSizeArray, from iteration i on. The
\* loop ends at the first check that fails or when i reaches title_sets.
RECURSIVE MultiScanTargets(_, _)
MultiScanTargets(size_size_array, i) ==
  IF i >= Len(size_size_array) THEN << >>
  ELSE IF i + 2 > Len(size_size_array) THEN << i + 1 >>
  ELSE IF ~CheckSizeArray(size_size_array, 1, i + 2) THEN << i + 1 >>
  ELSE << i + 1 >> \o MultiScanTargets(size_size_array, i + 1)

\* DVDGetInfo from the sorting of the arrays to its return: the main title
\* set, the return statement that chose it, and the multi flag.
MainTitleSet(info, past_end) ==
  LET n == Len(info.vts)
      ids == [k \in 1..n |-> k]
      chapter == bsort_max_to_min([k \in 1..n |-> info.vts[k].nr_of_ptts],
                                  ids)
      sub == bsort_max_to_min(
               [k \in 1..n |-> info.vts[k].nr_of_vtstt_subp_streams], ids)
      audio == bsort_max_to_min(
               [k \in 1..n |-> info.vts[k].nr_of_vtstt_audio_streams], ids)
      sz == bsort_max_to_min([k \in 1..n |-> info.vts[k].size], ids)
      channel == bsort_max_to_min([k \in 1..n |-> info.vts[k].channels], ids)
      in_range == n > 1 /\ CheckSizeArray(sz.sector, 1, 2)
      aspect_1 == info.vts[sz.title[1]].display_aspect_ratio
      aspect_2 == info.vts[sz.title[2]].display_aspect_ratio
      multi == in_range /\ aspect_1 = aspect_2
      dual == in_range /\ aspect_1 # aspect_2
              /\ ChaptersOf(info, sz.title[1]) = ChaptersOf(info, sz.title[2])
      candidate == IF dual /\ aspect_1 # info.aspect /\ aspect_2 = info.aspect
                   THEN sz.title[2] ELSE sz.title[1]
      found == CheckAudioSubChannels(audio, sub, channel, 1, candidate)
      found_chapter == FoundChapter(chapter.title, candidate, 6)
      number_of_multi == NumberOfMulti(sz.sector, past_end, 0)
      size_reads == IF multi THEN MultiScanTargets(sz.sector, 0) ELSE << >>
      multi_candidate == IF \E i \in 0..(number_of_multi - 1) :
                              chapter.title[1] = i + 1
                         THEN chapter.title[1] ELSE candidate
      multi_found == CheckAudioSubChannels(audio, sub, channel, 1,
                                           multi_candidate)
      biggest == sz.title[1]
      biggest_found == CheckAudioSubChannels(audio, sub, channel, 1, biggest)
      biggest_chapter == FoundChapter(chapter.title, biggest, 5)
  IN IF \/ found = 3 /\ found_chapter = 1 /\ ~dual /\ ~multi
        \/ found = 3 /\ found_chapter < 3 /\ dual
       THEN [main_title_set |-> candidate, rule |-> "candidate",
             multi |-> multi, size_reads |-> << >>]
     ELSE IF multi /\ multi_found = 3
       THEN [main_title_set |-> multi_candidate, rule |-> "multi",
             multi |-> multi, size_reads |-> size_reads]
     ELSE [main_title_set |-> biggest,
           rule |-> IF biggest_found = 3 THEN "biggest"
                    ELSE IF biggest_found > 1 /\ biggest_chapter <= 4
                           THEN "lowered"
                    ELSE "giveup",
           multi |-> multi, size_reads |-> size_reads]

\* DVDGetInfo on one disc.
DVDGetInfo ==
  /\ pc = "guess"
  /\ \E past_end \in BOOLEAN :
       titles_info' = MainTitleSet(vmg_ifo, past_end)
  /\ pc' = "guessed"
  /\ UNCHANGED <<ioVars, destination, result, copyVars, refreshVars,
                 failed_on_read, mirrorVars, cellVars, discVars, vmg_ifo>>

NextGuess == DVDGetInfo

SpecGuess == InitGuess /\ [][NextGuess]_vars

(* ------------------------------------------------------------------ *)
(* Properties of the fresh block copy                                  *)
(* ------------------------------------------------------------------ *)

\* C1: whenever the fresh DVDCopyBlocks returns success, exactly size blocks
\* were appended, the output block at relative index i is the disc block at
\* start_offset + i or a zero padding block, and with no short or failed
\* read every output block equals its disc block.
C1_FreshCopyExact ==
  (pc = "done" /\ result = 0) =>
    /\ Len(destination.blocks) = size
    /\ destination.tail = 0
    /\ \A i \in 1..Len(destination.blocks) :
         destination.blocks[i] \in {dvd_file[start_offset + i - 1], 0}
    /\ (~short_read =>
         \A i \in 1..Len(destination.blocks) :
           destination.blocks[i] = dvd_file[start_offset + i - 1])

\* A successful copy at a non-zero disc offset in which a padding block
\* stands for a non-blank disc block and a later block was copied.
C1_Witness ==
  /\ pc = "done" /\ result = 0 /\ start_offset > 0 /\ short_read
  /\ \E i, j \in 1..Len(destination.blocks) :
       /\ i < j
       /\ destination.blocks[i] = 0 /\ dvd_file[start_offset + i - 1] # 0
       /\ destination.blocks[j] # 0
       /\ destination.blocks[j] = dvd_file[start_offset + j - 1]


(* ------------------------------------------------------------------ *)
(* Properties of the refresh                                           *)
(* ------------------------------------------------------------------ *)

\* The blocks a plan covers.
PlanBlocks(pl) ==
  UNION {pl[k].start_block..(pl[k].start_block + pl[k].block_count - 1) :
           k \in 1..Len(pl)}

\* The gaps of file f with respect to sz expected blocks: blank full blocks
\* and blocks at or beyond the last full block.
GapBlocks(f, sz) ==
  {b \in 0..(sz - 1) : b >= Len(f.blocks) \/ f.blocks[b + 1] = 0}

\* C3: a refresh rewrites only missing sectors. Every refill write lies
\* inside one range of the plan, every block that was a full non-blank block
\* of the file at entry keeps its content, and the file never gets shorter.
C3_RefreshWritesOnlyGaps ==
  /\ \A w \in 1..Len(writeLog) :
       \E k \in 1..Len(plan) :
         /\ plan[k].start_block <= writeLog[w][1]
         /\ writeLog[w][1] + writeLog[w][2]
              <= plan[k].start_block + plan[k].block_count
  /\ \A i \in 1..Len(before.blocks) :
       before.blocks[i] # 0 =>
         /\ i <= Len(destination.blocks)
         /\ destination.blocks[i] = before.blocks[i]
  /\ FileBytes(destination) >= FileBytes(before)

\* A finished refresh that filled a blank block and a missing block and left
\* a non-blank block between them alone.
C3_Witness ==
  /\ pc = "done" /\ result = 0 /\ Len(writeLog) >= 2
  /\ Len(destination.blocks) > Len(before.blocks)
  /\ destination.blocks[Len(destination.blocks)] # 0
  /\ \E i, j \in 1..Len(before.blocks) :
       /\ i < j
       /\ before.blocks[i] = 0 /\ destination.blocks[i] # 0
       /\ before.blocks[j] # 0

\* C4 as stated: after a successful refresh the blank-block count of the
\* second scan is at most the blank-block count of the first scan.
C4_BlankCountNonIncreasing ==
  (pc = "done" /\ result = 0) => blank_after <= blank_blocks

\* C4 amended: after a successful refresh the number of blank blocks plus
\* the number of missing trailing blocks is at most what it was at entry.
C4_GapCountNonIncreasing ==
  (pc = "done" /\ result = 0) =>
    blank_after + truncated_after <= blank_blocks + truncated_blocks

\* A successful refresh of a file shorter than expected after which the
\* blank count grew although the number of gaps did not.
C4_Witness ==
  /\ pc = "done" /\ result = 0
  /\ truncated_blocks > 0
  /\ blank_after > blank_blocks
  /\ blank_after + truncated_after < blank_blocks + truncated_blocks

\* Some verification sample differs between the disc and the file at entry.
SampleMismatch ==
  \E k \in 1..Len(sample_slots) :
    \/ sample_slots[k] >= Len(before.blocks)
    \/ dvd_file[start_offset + sample_slots[k]]
         # before.blocks[sample_slots[k] + 1]

\* C5: when a verification sample differs from the file block of the same
\* index, the refill never starts, the refresh returns failure and the file
\* has not been written.
C5_WrongSourceDetected ==
  SampleMismatch =>
    /\ pc # "fg_fill"
    /\ (pc = "done" =>
          /\ result = 1
          /\ destination = before
          /\ readLog = << >> /\ writeLog = << >>)

\* A refresh that failed on a mismatch of its last sample, with a gap that a
\* refill would have written.
C5_Witness ==
  /\ pc = "done" /\ result = 1
  /\ Len(sample_slots) >= 2
  /\ Len(plan) > 0
  /\ dvd_file[start_offset + sample_slots[1]] = before.blocks[sample_slots[1] + 1]
  /\ dvd_file[start_offset + sample_slots[Len(sample_slots)]]
       # before.blocks[sample_slots[Len(sample_slots)] + 1]

\* The file at entry is complete: the expected length, and every block
\* equal to the disc block of the same index.
CompleteAtEntry ==
  /\ FileBytes(before) = size * DVD_VIDEO_LB_LEN
  /\ \A i \in 1..size : before.blocks[i] = dvd_file[start_offset + i - 1]

\* C6 as stated: refreshing a complete file issues no refill read and no
\* refill write, whatever the disc content.
C6_CompleteRefreshNoIO ==
  CompleteAtEntry => (readLog = << >> /\ writeLog = << >>)

\* C6 amended: refreshing a complete file leaves the file as it was, and
\* every block the refill reads or writes is an all-zero block of the disc;
\* so when no block of the disc range is all-zero there is no refill read
\* and no refill write.
C6_CompleteRefreshOnlyBlank ==
  CompleteAtEntry =>
    /\ destination = before
    /\ \A r \in 1..Len(readLog) :
         \A b \in readLog[r][1]..(readLog[r][1] + readLog[r][2] - 1) :
           dvd_file[start_offset + b] = 0
    /\ \A w \in 1..Len(writeLog) :
         \A b \in writeLog[w][1]..(writeLog[w][1] + writeLog[w][2] - 1) :
           dvd_file[start_offset + b] = 0
    /\ ((\A i \in 1..size : dvd_file[start_offset + i - 1] # 0)
          => (readLog = << >> /\ writeLog = << >>))

\* A successful refresh of a complete file with verified samples, without
\* any refill read.
C6_Witness ==
  /\ pc = "done" /\ result = 0
  /\ CompleteAtEntry /\ size >= 2
  /\ Len(sample_slots) > 0
  /\ readLog = << >> /\ writeLog = << >>

\* C10: the plan built by the scan and the trailing range is ordered,
\* disjoint and non-adjacent, every range is non-empty and ends at or before
\* size, and it covers exactly the gaps of the file; so a trailing range
\* that abuts a final blank run is one range with it.
C10_PlanWellFormed ==
  (pc \in {"fg_verify", "fg_fill"}) =>
    /\ \A k \in 1..Len(plan) :
         /\ plan[k].block_count > 0
         /\ plan[k].start_block + plan[k].block_count <= size
    /\ \A i, j \in 1..Len(plan) :
         i < j => plan[i].start_block + plan[i].block_count < plan[j].start_block
    /\ PlanBlocks(plan) = GapBlocks(before, size)

\* A plan of two ranges whose last range joins a final blank run of the
\* file with the missing trailing blocks.
C10_Witness ==
  /\ pc = "fg_verify"
  /\ Len(plan) >= 1
  /\ LET last == plan[Len(plan)] IN
       /\ last.start_block < Len(before.blocks)
       /\ Len(before.blocks) < size
       /\ last.start_block + last.block_count = size
       /\ last.start_block > 0

(* ------------------------------------------------------------------ *)
(* Properties of the title-set mirror                                  *)
(* ------------------------------------------------------------------ *)

\* C2: after a fresh mirror that returned success without any short or
\* failed disc read, a compare over the same disc and directory that meets no
\* read or open failure returns success, for every file and so for every
\* title VOB part.
C2_CompareAfterCleanMirror ==
  (compare_only /\ step = "finished" /\ ~fill_gaps /\ ~io_errors)
    => cmp_result = 0

\* C7: every file that a copy operation returned success for has a size
\* that is a multiple of 2048 bytes, in fresh and in refresh mode.
C7_OutputSizesAligned ==
  \A n \in copied : FileBytes(tree[n].file) % DVD_VIDEO_LB_LEN = 0

\* C8: every title VOB part that DVDCopyTitleVobX returned success for holds
\* at most MAX_VOB_SIZE blocks.
C8_TitleVobWithinLimit ==
  \A v \in 1..MaxParts :
    VobName(v) \in copied =>
      FileBytes(tree[VobName(v)].file) <= MAX_VOB_SIZE * DVD_VIDEO_LB_LEN

CellsStayPaired ==
  \E p \in Permutations(1..Len(cells)) :
    \A k \in 1..Len(cells) :
      /\ cell_start_sector[k] = cells[p[k]][1]
      /\ cell_end_sector[k] =
           (IF k < Len(cells) /\ cells[p[k]][2] >= cell_start_sector[k + 1]
            THEN cell_start_sector[k + 1] - 1 ELSE cells[p[k]][2])

\* C11: for any list of cells, after bsort_min_to_max and align_end_sector
\* the ranges are sorted by first sector ascending, every start is still
\* paired with a value derived from its own cell's end, and the ranges are
\* disjoint: for all i < j, end[i] < start[j].
C11_RangesSortedPairedDisjoint ==
  pc = "cells_open" =>
    /\ Len(cell_start_sector) = Len(cells)
    /\ Len(cell_end_sector) = Len(cells)
    /\ \A a, b \in 1..Len(cells) :
         a < b => cell_start_sector[a] <= cell_start_sector[b]
    /\ CellsStayPaired
    /\ \A a, b \in 1..Len(cells) :
         a < b => cell_end_sector[a] < cell_start_sector[b]

\* Sorted and aligned ranges of a list that was out of order and held two
\* cells with the same first sector and an end touching the next start.
C11_Witness ==
  /\ pc = "cells_open"
  /\ Len(cells) = MaxCells
  /\ \E a, b \in 1..Len(cells) : a < b /\ cells[a][1] > cells[b][1]
  /\ \E a, b \in 1..Len(cells) : a # b /\ cells[a][1] = cells[b][1]
  /\ \E a, b \in 1..Len(cells) :
       a # b /\ cells[a][2] = cells[b][1] /\ cells[a][1] < cells[b][1]
  /\ cell_end_sector # [k \in 1..Len(cells) |-> cells[k][2]]

\* The blocks of VTS_XX_1.VOB .. VTS_XX_v.VOB one after the other.
RECURSIVE OutputBlocks(_, _)
OutputBlocks(tr, v) ==
  IF v = 0 THEN << >>
  ELSE OutputBlocks(tr, v - 1) \o tr[VobName(v)].file.blocks

\* The disc blocks of the sectors first .. last.
SectorBlocks(first, last) ==
  [k \in 1..Max(0, last - first + 1) |-> CellDisc[first + k - 1]]

\* The disc blocks of the ranges k .. Len, each running to its end plus
\* tailAdjust (0: last sector included, -1: last sector left out).
RECURSIVE RangeBlocks(_, _, _, _)
RangeBlocks(cs, ce, k, tailAdjust) ==
  IF k > Len(cs) THEN << >>
  ELSE SectorBlocks(cs[k], ce[k] + tailAdjust)
         \o RangeBlocks(cs, ce, k + 1, tailAdjust)

ExtractionSucceeded == pc = "done" /\ result = 0

NothingThereBefore == \A n \in Names : existing[n].kind = "none"

\* C12: a successful chapter extraction into an empty directory leaves
\* exactly the concatenation of the aligned ranges, every range taken in
\* ascending order from first_sector through last_sector inclusive.
C12_OutputIsInclusiveRanges ==
  (ExtractionSucceeded /\ NothingThereBefore) =>
    OutputBlocks(tree, vob) =
      RangeBlocks(cell_start_sector, cell_end_sector, 1, 0)

\* What DVDWriteCells leaves instead: every range without its last sector.
C12_OutputIsHalfOpenRanges ==
  (ExtractionSucceeded /\ NothingThereBefore) =>
    OutputBlocks(tree, vob) =
      RangeBlocks(cell_start_sector, cell_end_sector, 1, -1)

\* C13: chapter extraction changes to the next output file whenever the
\* current one holds MAX_VOB_SIZE blocks and more data remains in this or a
\* later range: no output file ever holds more than MAX_VOB_SIZE blocks,
\* every file before the last holds exactly MAX_VOB_SIZE, and a fresh
\* extraction that meets no failure of the disc or the file system
\* succeeds, also when a range ends exactly on the boundary.
C13_SplitAtLimitAndSucceed ==
  (pc = "done" /\ ~fill_gaps /\ existing[VobName(1)].kind # "dir") =>
    /\ \A v \in 1..MaxParts :
         Len(tree[VobName(v)].file.blocks) <= MAX_VOB_SIZE
    /\ \A v \in 1..(vob - 1) :
         Len(tree[VobName(v)].file.blocks) = MAX_VOB_SIZE
    /\ ~io_errors => result = 0

\* The part of C13 the code keeps: the size limit and the full earlier files.
C13_FilesWithinLimit ==
  (pc = "done" /\ ~fill_gaps /\ existing[VobName(1)].kind # "dir") =>
    /\ \A v \in 1..MaxParts :
         Len(tree[VobName(v)].file.blocks) <= MAX_VOB_SIZE
    /\ \A v \in 1..(vob - 1) :
         Len(tree[VobName(v)].file.blocks) = MAX_VOB_SIZE

(* ------------------------------------------------------------------ *)
(* Read errors and the error strategy                                  *)
(* ------------------------------------------------------------------ *)

\* C14: with the strategy SKIP_BLOCK or SKIP_MULTIBLOCK neither the block
\* copier nor the gap refresher, its verification sampling and its refill
\* included, returns failure because of a short or failed disc read.
C14_ReadFailureOnlyUnderAbort ==
  (pc = "done" /\ result = 1 /\ errorstrat # STRATEGY_ABORT)
    => ~failed_on_read

\* The part of C14 the code keeps: the copy loop and the refill never fail
\* on a read under the skipping strategies; only the sampling does.
C14_OnlySamplingFailsOnRead ==
  (pc = "done" /\ result = 1 /\ errorstrat # STRATEGY_ABORT
     /\ failed_on_read)
    => (segments = << >> /\ sample_slots # << >> /\ writeLog = << >>)

(* ------------------------------------------------------------------ *)
(* Opening the output files in refresh mode                            *)
(* ------------------------------------------------------------------ *)

\* No open of the run has discarded content: a file that was there before
\* the run is still a regular file of at least its former length.
NoContentDiscarded ==
  \A n \in Names :
    existing[n].kind = "reg" =>
      /\ tree[n].kind = "reg"
      /\ FileBytes(tree[n].file) >= FileBytes(existing[n].file)

\* A path that is not a regular file stays as it is, and the file opened
\* together with it (the IFO next to a BUP that is a directory) is untouched.
NotRegularRefused ==
  /\ \A n \in Names : existing[n].kind = "dir" => tree[n] = existing[n]
  /\ (existing[BUP].kind = "dir" /\ title_set_info.size_ifo # 0)
       => (tree[IFO] = existing[IFO] /\ step \in {"ifo", "finished"})

\* C15: in refresh mode every output file of the title set is opened
\* without truncation, so no pre-existing content is discarded by the open,
\* and a pre-existing path that is not a regular file is refused before
\* anything is written.
C15_RefreshOpensWithoutTruncation ==
  fill_gaps => (NoContentDiscarded /\ NotRegularRefused)

\* The part of C15 the code keeps: in refresh mode the menu and the title
\* VOB parts keep their length, and a path that is not regular is refused.
C15_RefreshVobsKeepContent ==
  fill_gaps =>
    /\ NotRegularRefused
    /\ \A n \in Names \ {IFO, BUP} :
         existing[n].kind = "reg" =>
           /\ tree[n].kind = "reg"
           /\ FileBytes(tree[n].file) >= FileBytes(existing[n].file)

(* ------------------------------------------------------------------ *)
(* Order of the files and the first failure                            *)
(* ------------------------------------------------------------------ *)

\* The operations of one title set in the order of DVDMirrorTitleX.
TitleSetOrder ==
  <<IFO, MENU>> \o [v \in 1..Len(title_set_info.size_vob) |-> VobName(v)]

\* Position of call k within its title set, counted over the whole disc.
CallRank(k) ==
  calls[k].title_set * Len(TitleSetOrder)
    + (CHOOSE r \in 1..Len(TitleSetOrder) : TitleSetOrder[r] = calls[k].name)

\* C16: the files of a title set are processed in the order IFO+BUP, menu
\* VOB, title-VOB parts 1..n, title sets in ascending order, and nothing is
\* processed after the first failure: every operation but the last one
\* called has returned success, the k-th call is the k-th operation of the
\* disc, and after a failure DVDMirror returns failure with no further call.
C16_FixedOrderFirstFailureAborts ==
  /\ \A k \in 1..Len(calls) :
       /\ CallRank(k) = k
       /\ k < Len(calls) => calls[k].ret = 0
  /\ (Len(calls) > 0 /\ calls[Len(calls)].ret = 1)
       => (step = "finished" /\ mirror_result = 1 /\ pc = "idle"
           /\ disc_result # 0)
  /\ disc_result = 0
       => Len(calls) = (number_of_title_sets + 1) * Len(TitleSetOrder)

\* A whole-disc mirror that failed in the menu VOB of a later title set,
\* after the title sets before it were mirrored completely.
C16_Witness ==
  /\ disc_result = 1
  /\ title_set > 0
  /\ Len(calls) = title_set * Len(TitleSetOrder) + 2
  /\ calls[Len(calls)].name = MENU /\ calls[Len(calls)].ret = 1
  /\ Len(title_set_info.size_vob) > 1

(* ------------------------------------------------------------------ *)
(* A menu VOB of misaligned size                                       *)
(* ------------------------------------------------------------------ *)

MenuMisaligned == title_set_info.size_menu % DVD_VIDEO_LB_LEN # 0

\* The menu operation of a copy or refresh run failed only for a reason
\* other than the size: the path is not a regular file, an open failed, a
\* read came short, or the block copy itself returned failure.
MenuCopyFailsOnlyOnFault ==
  (MenuMisaligned /\ ~compare_only /\ Len(calls) = 2 /\ calls[2].ret = 1)
    => (existing[MENU].kind = "dir" \/ io_errors \/ result = 1)

\* The compare run after a clean fresh mirror of a title set with at most
\* one title VOB part succeeds although the menu size is misaligned.
MenuCompareSucceeds ==
  (MenuMisaligned /\ compare_only /\ step = "finished" /\ ~fill_gaps
     /\ ~io_errors /\ Len(title_set_info.size_vob) <= 1)
    => cmp_result = 0

\* C17: a non-zero menu VOB size that is not a multiple of 2048 is only a
\* warning: the menu VOB is processed and the size does not by itself make
\* the title-set operation fail, in copy, refresh and compare mode.
C17_MisalignedMenuOnlyWarning ==
  MenuCopyFailsOnlyOnFault /\ MenuCompareSucceeds

(* ------------------------------------------------------------------ *)
(* Requests outside the disc's range                                   *)
(* ------------------------------------------------------------------ *)

OutOfRange ==
  \/ request.kind = "title_set" /\ request.n > number_of_title_sets
  \/ request.kind = "titles" /\ request.n > number_of_titles

\* C18: a request for a title set beyond number_of_title_sets or a title
\* beyond number_of_titles ends in failure, and no output file has been
\* created, truncated or written: the tree stays as it was, the run goes on
\* to no file operation and never returns success.
C18_OutOfRangeFailsWithoutOutput ==
  OutOfRange =>
    /\ tree = existing
    /\ disc_result # 0
    /\ step \in {"request", "returned", "idle"}
    /\ pc \in {"request", "returned", "idle", "fault"}

\* The part of C18 the code keeps: DVDMirrorTitleSet tests the title set.
C18_TitleSetOutOfRangeFails ==
  (OutOfRange /\ request.kind = "title_set") =>
    /\ tree = existing
    /\ disc_result # 0
    /\ step \in {"request", "returned"}

(* ------------------------------------------------------------------ *)
(* Properties of the main feature guess                                *)
(* ------------------------------------------------------------------ *)

\* The title sets tied for largest size: the largest title set and those
\* whose size passes the size check against it.
TiedForLargest(info) ==
  LET sizes == [k \in DOMAIN info.vts |-> info.vts[k].size]
      largest == CHOOSE k \in DOMAIN sizes :
                   \A j \in DOMAIN sizes : sizes[j] <= sizes[k]
  IN {k \in DOMAIN sizes :
        sizes[k] = sizes[largest]
        \/ CheckSizeArray(<<sizes[largest], sizes[k]>>, 1, 2)}

\* C19: when the multi flag is set and the multi-episode rule returns a title
\* set with 3 confirmations, that title set is in the group tied for largest
\* size and no title set of the group has more chapters.
C19_MultiReturnsTopChaptersOfTied ==
  (pc = "guessed" /\ titles_info.multi /\ titles_info.rule = "multi") =>
    /\ titles_info.main_title_set \in TiedForLargest(vmg_ifo)
    /\ \A k \in TiedForLargest(vmg_ifo) :
         vmg_ifo.vts[k].nr_of_ptts
           <= vmg_ifo.vts[titles_info.main_title_set].nr_of_ptts

\* What the multi-episode rule does return: the first title set of the size
\* order, or the title set with the most chapters of the whole disc when its
\* NUMBER is at most the count of title sets in the size range.
C19_MultiReturnsLargestOrTopOfDisc ==
  (pc = "guessed" /\ titles_info.rule = "multi") =>
    /\ titles_info.multi
    /\ \/ \A k \in DOMAIN vmg_ifo.vts :
            vmg_ifo.vts[k].size
              <= vmg_ifo.vts[titles_info.main_title_set].size
       \/ \A k \in DOMAIN vmg_ifo.vts :
            vmg_ifo.vts[k].nr_of_ptts
              <= vmg_ifo.vts[titles_info.main_title_set].nr_of_ptts

\* C19, its first half alone: the multi-episode rule can return a title set
\* whose size is outside the tied group.
C19_MultiStaysInTiedGroup ==
  (pc = "guessed" /\ titles_info.rule = "multi") =>
    titles_info.main_title_set \in TiedForLargest(vmg_ifo)

(* ------------------------------------------------------------------ *)
(* Properties of the file handles                                      *)
(* ------------------------------------------------------------------ *)

\* No per-file operation is between its open and its return.
OperationReturned ==
  step \notin {"menu_run", "vob_run"} /\ pc # "cells_loop"

\* C20: no handle on a file of the tree is closed twice, and when the
\* operation that opened it has returned, every handle has been closed
\* exactly once.
C20_EveryHandleClosedOnce ==
  /\ \A i \in DOMAIN handles : handles[i].closes <= 1
  /\ OperationReturned => \A i \in DOMAIN handles : handles[i].closes = 1

\* C20, the half that holds on every path: no handle is left open when its
\* operation has returned.
C20_NoHandleLeftOpen ==
  OperationReturned => \A i \in DOMAIN handles : handles[i].closes >= 1

\* C20 for the copy, refresh and chapter-extraction operations, which keep
\* it: only the compare of an IFO closes a handle twice.
C20_CopyHandlesClosedOnce ==
  ~compare_only =>
    /\ \A i \in DOMAIN handles : handles[i].closes <= 1
    /\ OperationReturned => \A i \in DOMAIN handles : handles[i].closes = 1

(* ------------------------------------------------------------------ *)
(* Properties of the short read in the fresh block copy                *)
(* ------------------------------------------------------------------ *)

\* What one iteration of the fresh copy loop may do to the output and the
\* cursor when its read returns got blocks of the req requested at block off.
ShortReadStep(req, got) ==
  LET data == ReadData(dvd_file, offset, got)
      delivered == AppendBlocks(destination, data)
      padding == IF errorstrat = STRATEGY_SKIP_BLOCK THEN 1 ELSE req - got
  IN
  \/ \* a write() failed: failure, nothing of the padding is in the file
     /\ pc' = "done" /\ result' = 1
     /\ destination' \in {destination, delivered}
  \/ /\ got = req
     /\ destination' = delivered
     /\ offset' = offset + req /\ remaining' = remaining - req
     /\ pc' = "copy"
  \/ /\ got < req /\ errorstrat = STRATEGY_ABORT
     /\ destination' = delivered
     /\ pc' = "done" /\ result' = 1
  \/ /\ got < req /\ errorstrat # STRATEGY_ABORT
     /\ destination' = AppendBlocks(delivered, Zeros(padding))
     /\ offset' = offset + got + padding
     /\ remaining' = remaining - got - padding
     /\ pc' = "copy"

\* C21: every iteration of DVDCopyBlocks requests min(remaining, BUFFER_SIZE)
\* blocks at the cursor; after a read of got < requested blocks the got
\* blocks are written first, then ABORT returns failure without padding,
\* SKIP_BLOCK appends exactly one zero block and SKIP_MULTIBLOCK exactly
\* requested - got zero blocks, and the cursor of the next read is got +
\* padding blocks after the start of the failed request.
C21_ShortReadPadsPerStrategy ==
  [][(pc = "copy" /\ remaining > 0) =>
       /\ to_read' = Min(remaining, BUFFER_SIZE)
       /\ \E got \in 0..to_read' : ShortReadStep(to_read', got)]_vars

\* A read of 1 block out of 2 requested under SKIP_BLOCK has been padded with
\* one zero block and the next read is due 2 blocks after the request's start.
C21_Witness ==
  /\ pc = "copy" /\ short_read /\ remaining > 0
  /\ errorstrat = STRATEGY_SKIP_BLOCK
  /\ offset = start_offset + 2
  /\ Len(destination.blocks) = 2
  /\ destination.blocks[1] = dvd_file[start_offset]
  /\ destination.blocks[1] # 0 /\ destination.blocks[2] = 0
  /\ dvd_file[start_offset + 1] # 0

(* ------------------------------------------------------------------ *)
(* Properties of the refill orderings                                  *)
(* ------------------------------------------------------------------ *)

\* Every refill read so far returned all the blocks it asked for.
AllRefillReadsWhole ==
  /\ Len(writeLog) = Len(readLog)
  /\ \A r \in 1..Len(readLog) : writeLog[r][2] = readLog[r][2]

\* The number of refill reads that asked for block b.
TimesRead(b) ==
  Cardinality({r \in 1..Len(readLog) :
                 readLog[r][1] <= b /\ b < readLog[r][1] + readLog[r][2]})

\* The file at entry with every planned block replaced by the disc block it
\* maps to: what a refill leaves, whatever its ordering.
RefilledFile ==
  LET n == Max(Len(before.blocks), IF plan = << >> THEN 0 ELSE size)
      kept == Len(before.blocks) >= n
  IN [blocks |-> [i \in 1..n |->
                    IF i - 1 \in PlanBlocks(plan)
                    THEN dvd_file[start_offset + i - 1]
                    ELSE before.blocks[i]],
      tail |-> IF kept THEN before.tail ELSE 0,
      tailv |-> IF kept THEN before.tailv ELSE 0]

\* C22: under each refill ordering, while every disc read succeeds no read
\* asks for more than BUFFER_SIZE blocks, for a block outside the plan or
\* for a block a second time; and when the refresh has returned success
\* every planned block was read exactly once and the file is the file at
\* entry with the planned blocks taken from the disc, the same for all
\* orderings.
C22_OrderingsReadPlanOnce ==
  (pc \in {"fg_fill", "done"} /\ AllRefillReadsWhole) =>
    /\ \A r \in 1..Len(readLog) : readLog[r][2] <= BUFFER_SIZE
    /\ \A b \in 0..(DiscLen - 1) :
         TimesRead(b) <= (IF b \in PlanBlocks(plan) THEN 1 ELSE 0)
    /\ (pc = "done" /\ result = 0) =>
         /\ \A b \in PlanBlocks(plan) : TimesRead(b) = 1
         /\ destination = RefilledFile

\* A successful REVERSE refill of a range longer than BUFFER_SIZE, read in
\* two segments from the back, with every read whole.
C22_Witness ==
  /\ pc = "done" /\ result = 0 /\ AllRefillReadsWhole
  /\ gap_strategy = GAP_STRATEGY_REVERSE
  /\ Len(readLog) >= 2
  /\ readLog[1][1] > readLog[2][1]
  /\ destination # before
  /\ \E k \in 1..Len(plan) : plan[k].block_count > BUFFER_SIZE
(* ------------------------------------------------------------------ *)
(* The order of the refill segments on long ranges                     *)
(* ------------------------------------------------------------------ *)

\* The block span of the plans studied here: long enough for a range of
\* three and more segments, and for several ranges.
SegSpan == 2 * BUFFER_SIZE + MaxBlocks

\* The plan the scan builds when exactly the blocks of S are missing:
\* gap_plan_add block by block in ascending order, from block b on.
RECURSIVE PlanOfBlocks(_, _, _)
PlanOfBlocks(S, b, pl) ==
  IF b >= SegSpan THEN pl
  ELSE PlanOfBlocks(S, b + 1, IF b \in S THEN gap_plan_add(pl, b, 1) ELSE pl)

\* Entry of gap_fill_from_plan with a non-empty plan.
InitSegments ==
  /\ plan \in {PlanOfBlocks(S, 0, << >>) : S \in (SUBSET (0..(SegSpan - 1))) \ {{}}}
  /\ gap_strategy \in GapStrategies
  /\ errorstrat \in Strategies
  /\ dvd_file = FullDisc /\ start_offset = 0 /\ size = 0
  /\ destination = EmptyFile /\ before = EmptyFile
  /\ pc = "seg_plan" /\ result = -1
  /\ blank_blocks = 0 /\ truncated_blocks = 0 /\ sample_slots = << >>
  /\ segments = << >> /\ cursor = 0 /\ filled_blocks = 0
  /\ readLog = << >> /\ writeLog = << >>
  /\ blank_after = 0 /\ truncated_after = 0
  /\ CopyIdle
  /\ MirrorIdle(TRUE)
  /\ CellsIdle

segFrame == <<ioVars, destination, copyVars, gap_strategy, before, planVars,
              cursor, filled_blocks, writeLog, afterVars, failed_on_read,
              mirrorVars, cellVars, discVars, guessVars>>

\* gap_fill_from_plan up to its first gap_process_segment call: the order of
\* the calls is fixed by the strategy, or by the shuffle under RANDOM.
GapFillFromPlan ==
  /\ pc = "seg_plan"
  /\ segments' \in SegmentOrders(plan, gap_strategy)
  /\ pc' = "seg_run"
  /\ UNCHANGED <<result, readLog, segFrame>>

\* One gap_process_segment call, recorded as <<segment_start, chunk>>; when
\* it returns nonzero the loops stop with result 1.
GapFillNextSegment ==
  /\ pc = "seg_run" /\ segments # << >>
  /\ readLog' = Append(readLog, <<Head(segments).start_block,
                                  Head(segments).block_count>>)
  /\ \E ok \in BOOLEAN :
       IF ok
       THEN segments' = Tail(segments) /\ UNCHANGED <<pc, result>>
       ELSE segments' = << >> /\ pc' = "done" /\ result' = 1
  /\ UNCHANGED segFrame

\* Every range was handed out: gap_fill_from_plan returns 0.
GapFillReturn ==
  /\ pc = "seg_run" /\ segments = << >>
  /\ pc' = "done" /\ result' = 0
  /\ UNCHANGED <<segments, readLog, segFrame>>

NextSegments == GapFillFromPlan \/ GapFillNextSegment \/ GapFillReturn

SpecSegments == InitSegments /\ [][NextSegments]_vars

\* The index of the plan range that holds block b.
RangeOf(b) ==
  CHOOSE i \in 1..Len(plan) :
    b >= plan[i].start_block /\ b < plan[i].start_block + plan[i].block_count

\* The positions of the log whose segment lies in range i, in call order.
CallsInRange(i) ==
  SelectSeq([k \in 1..Len(readLog) |-> k], LAMBDA k : RangeOf(readLog[k][1]) = i)

\* The blocks taken by the calls ks, counting the odd calls (parity 1),
\* the even calls (parity 0) or all of them (any other parity).
RECURSIVE SumCounts(_, _)
SumCounts(ks, parity) ==
  IF ks = << >> THEN 0
  ELSE (IF parity \in {0, 1} /\ Len(ks) % 2 # parity THEN 0
        ELSE readLog[ks[Len(ks)]][2])
       + SumCounts(SubSeq(ks, 1, Len(ks) - 1), parity)

\* Ranges are visited in plan order: the range index never decreases.
VisitsInPlanOrder ==
  \A j, k \in 1..Len(readLog) :
    j < k => RangeOf(readLog[j][1]) <= RangeOf(readLog[k][1])

\* REVERSE in range i: the first segment ends at the range end, each later
\* one ends where the one before starts, each takes BUFFER_SIZE blocks or
\* what is left down to the range head.
ReverseOrderIn(i) ==
  LET ks == CallsInRange(i)
      head == plan[i].start_block
  IN \A n \in 1..Len(ks) :
       LET s == readLog[ks[n]]
           top == IF n = 1 THEN head + plan[i].block_count
                  ELSE readLog[ks[n - 1]][1]
       IN /\ s[1] + s[2] = top
          /\ s[2] = Min(BUFFER_SIZE, top - head)
          /\ n > 1 => s[1] < readLog[ks[n - 1]][1]

\* OUTSIDE_IN in range i: the odd calls take from the head cursor, the even
\* calls from the tail cursor, each BUFFER_SIZE blocks or what lies between
\* the two cursors.
OutsideInOrderIn(i) ==
  LET ks == CallsInRange(i)
      head == plan[i].start_block
  IN \A n \in 1..Len(ks) :
       LET s == readLog[ks[n]]
           earlier == SubSeq(ks, 1, n - 1)
           front == SumCounts(earlier, 1)
           back == plan[i].block_count - SumCounts(earlier, 0)
       IN /\ front < back
          /\ s[2] = Min(BUFFER_SIZE, back - front)
          /\ s[1] = IF n % 2 = 1 THEN head + front ELSE head + back - s[2]

\* A successful refill has covered every block of every range: the cursors met.
AllRangesCovered ==
  \A i \in 1..Len(plan) :
    SumCounts(CallsInRange(i), -1) = plan[i].block_count

\* C23: under the orderings other than RANDOM the refill visits the ranges in
\* plan order; within a range REVERSE hands out segments with strictly
\* decreasing start blocks, the last BUFFER_SIZE blocks of the range first and
\* the possibly shorter remainder at the range head last, and OUTSIDE_IN
\* alternates head, tail, head, ... starting with the head, until the two
\* cursors meet.
C23_SegmentsFollowPolicy ==
  (pc \in {"seg_run", "done"} /\ gap_strategy # GAP_STRATEGY_RANDOM) =>
    /\ VisitsInPlanOrder
    /\ gap_strategy = GAP_STRATEGY_REVERSE =>
         \A i \in 1..Len(plan) : ReverseOrderIn(i)
    /\ gap_strategy = GAP_STRATEGY_OUTSIDE_IN =>
         \A i \in 1..Len(plan) : OutsideInOrderIn(i)
    /\ (pc = "done" /\ result = 0) => AllRangesCovered

\* An OUTSIDE_IN refill of a plan with two ranges whose first range took
\* at least three calls: head, tail, and head again.
C23_Witness ==
  /\ pc = "done" /\ result = 0
  /\ gap_strategy = GAP_STRATEGY_OUTSIDE_IN
  /\ Len(plan) = 2
  /\ Len(CallsInRange(1)) >= 3
  /\ readLog[1][1] = plan[1].start_block
  /\ readLog[2][1] + readLog[2][2] = plan[1].start_block + plan[1].block_count
  /\ readLog[3][1] = readLog[1][1] + readLog[1][2]
(* ------------------------------------------------------------------ *)
(* The scan and the sampling on long files                             *)
(* ------------------------------------------------------------------ *)

\* The files the scan is studied on: up to SegSpan full blocks, each blank
\* or not, and possibly bytes beyond the last full block (zero or not).
ScanFiles ==
  {[blocks |-> b, tail |-> t[1], tailv |-> t[2]] :
     b \in UNION {[1..n -> {0, Foreign}] : n \in 0..SegSpan},
     t \in {<<0, 0>>, <<1, 0>>, <<1, Foreign>>}}

\* Entry of DVDCopyBlocksFillGaps, seen up to the sampling.
InitScan ==
  /\ destination \in ScanFiles
  /\ size \in 0..SegSpan
  /\ before = destination
  /\ dvd_file = FullDisc /\ start_offset = 0
  /\ errorstrat = STRATEGY_ABORT
  /\ pc = "scan" /\ result = -1
  /\ plan = << >> /\ blank_blocks = 0 /\ truncated_blocks = 0
  /\ sample_slots = << >>
  /\ segments = << >> /\ cursor = 0 /\ filled_blocks = 0
  /\ readLog = << >> /\ writeLog = << >>
  /\ blank_after = 0 /\ truncated_after = 0
  /\ gap_strategy = GAP_STRATEGY_FORWARD
  /\ CopyIdle
  /\ MirrorIdle(TRUE)
  /\ CellsIdle

scanFrame == <<ioVars, destination, copyVars, gap_strategy, before,
               fillVars, afterVars, failed_on_read,
               mirrorVars, cellVars, discVars, guessVars>>

\* Lines 1899-1904: the call of scan_existing_file_for_gaps; ok is FALSE
\* when fstat, malloc or pread fails.
ScanExistingFile ==
  /\ pc = "scan"
  /\ \E ok \in BOOLEAN :
       IF ok
       THEN LET sc == scan_existing_file_for_gaps(destination, size) IN
            /\ plan' = sc.plan
            /\ blank_blocks' = sc.blank_blocks
            /\ pc' = "scanned"
            /\ UNCHANGED result
       ELSE /\ pc' = "done" /\ result' = 1
            /\ UNCHANGED <<plan, blank_blocks>>
  /\ UNCHANGED <<truncated_blocks, sample_slots, scanFrame>>

\* Lines 1906-1919: the trailing range for the blocks the file lacks, then
\* gap_collect_samples over the size expected blocks.
CollectSamples ==
  /\ pc = "scanned"
  /\ LET bp == BuildPlan(destination, size) IN
       /\ plan' = bp.plan
       /\ truncated_blocks' = bp.truncated_blocks
       /\ sample_slots' = gap_collect_samples(bp.plan, size, GAP_SAMPLE_TARGET)
  /\ pc' = "sampled"
  /\ UNCHANGED <<blank_blocks, result, scanFrame>>

NextScan == ScanExistingFile \/ CollectSamples

SpecScan == InitScan /\ [][NextScan]_vars

\* C24: gap_collect_samples returns at most GAP_SAMPLE_TARGET (32 in the
\* program) sample indices, each in [0, expected_blocks) and none inside a
\* range of the plan, so that every sample is a full, non-blank block of the
\* existing file; the list is strictly increasing, hence without duplicates.
C24_SamplesOutsidePlanIncreasing ==
  pc = "sampled" =>
    /\ Len(sample_slots) <= GAP_SAMPLE_TARGET
    /\ \A k \in 1..Len(sample_slots) :
         /\ sample_slots[k] \in 0..(size - 1)
         /\ sample_slots[k] \notin PlanBlocks(plan)
         /\ sample_slots[k] < Len(destination.blocks)
         /\ destination.blocks[sample_slots[k] + 1] # 0
    /\ \A k \in 1..(Len(sample_slots) - 1) :
         sample_slots[k] < sample_slots[k + 1]

\* Every block from the first candidate on lies in the plan: the forward walk
\* reaches the end for every candidate, the backward walk finds the same
\* block each time, and the list holds it once.
C24_Witness ==
  /\ pc = "sampled"
  /\ size > GAP_SAMPLE_TARGET
  /\ Len(sample_slots) = 1
  /\ sample_slots[1] > 0
  /\ sample_slots[1] < size \div (GAP_SAMPLE_TARGET + 1)
  /\ Len(plan) >= 2

\* The blocks the scan looks at: min(floor(length / 2048), expected_blocks).
ScanBlocks ==
  Min(FileBytes(destination) \div DVD_VIDEO_LB_LEN, size)

\* The all-zero blocks among the scanned ones.
ZeroBlocks ==
  {b \in 0..(ScanBlocks - 1) : destination.blocks[b + 1] = 0}

\* Range k is a maximal run of all-zero blocks: it is not empty, all its
\* blocks are zero, and the block before it and the block after it are not
\* zero blocks of the scanned interval.
MaximalZeroRun(k) ==
  LET first == plan[k].start_block
      last == first + plan[k].block_count - 1
  IN /\ plan[k].block_count > 0
     /\ first..last \subseteq ZeroBlocks
     /\ (first - 1) \notin ZeroBlocks
     /\ (last + 1) \notin ZeroBlocks

\* C25: the ranges of the scan's plan are exactly the maximal runs of all-zero
\* blocks within [0, scan_blocks), in ascending order, also when a run crosses
\* a chunk boundary or reaches scan_blocks; the blank count is the number of
\* all-zero blocks in that interval; bytes after the last full block and
\* blocks from expected_blocks on are not looked at.
C25_PlanIsMaximalZeroRuns ==
  pc = "scanned" =>
    /\ PlanBlocks(plan) = ZeroBlocks
    /\ \A k \in 1..Len(plan) : MaximalZeroRun(k)
    /\ \A k \in 1..(Len(plan) - 1) : plan[k].start_block < plan[k + 1].start_block
    /\ blank_blocks = Cardinality(ZeroBlocks)

\* A file with a partial block at its end and more full blocks than expected
\* ones: one zero run crosses the first chunk boundary, another reaches
\* scan_blocks.
C25_Witness ==
  /\ pc = "scanned"
  /\ destination.tail > 0
  /\ Len(destination.blocks) > size
  /\ Len(plan) = 2
  /\ plan[1].start_block < BUFFER_SIZE
  /\ plan[1].start_block + plan[1].block_count > BUFFER_SIZE
  /\ plan[2].start_block + plan[2].block_count = size
  /\ destination.blocks[size + 1] = 0
(* ------------------------------------------------------------------ *)
(* Properties of the title VOB parts                                   *)
(* ------------------------------------------------------------------ *)

\* The block sizes of the parts of the title set, as the inventory has them.
PartBlocks ==
  [k \in 1..Len(title_set_info.size_vob) |->
     title_set_info.size_vob[k] \div DVD_VIDEO_LB_LEN]

\* C26: for title VOB part p DVDCopyTitleVobX reads the title domain from the
\* sum of the block sizes of the parts 1..p-1 and copies size_vob[p-1]/2048
\* blocks, so the parts cover adjoining disc ranges from block 0 on; after a
\* fresh mirror without read errors the output parts, one after the other, are
\* the title VOB data of the disc.
C26_PartsTileTitleDomain ==
  /\ step = "vob_run" =>
       /\ dvd_file = dvd.title
       /\ start_offset = SumTo(PartBlocks, vob - 1)
       /\ size = PartBlocks[vob]
  /\ (step = "finished" /\ mirror_result = 0 /\ ~fill_gaps /\ ~io_errors) =>
       OutputBlocks(tree, Len(PartBlocks))
         = ReadData(dvd.title, 0, SumTo(PartBlocks, Len(PartBlocks)))

\* A fresh mirror over stale files has copied MaxParts parts, the last of
\* more than one block and starting behind the parts before it.
C26_Witness ==
  /\ step = "finished" /\ mirror_result = 0 /\ ~fill_gaps /\ ~io_errors
  /\ Len(PartBlocks) = MaxParts
  /\ PartBlocks[MaxParts] > 1
  /\ existing[VobName(MaxParts)].kind = "reg"
  /\ tree[VobName(MaxParts)].file.blocks
       = ReadData(dvd.title, SumTo(PartBlocks, MaxParts - 1), PartBlocks[MaxParts])
  /\ tree[VobName(MaxParts)].file.blocks # tree[VobName(1)].file.blocks
(* ------------------------------------------------------------------ *)
(* The size check on its own                                           *)
(* ------------------------------------------------------------------ *)

\* The largest title VOB size of the discs the size check is studied on:
\* large enough for the ratios 4:3, 3:2, 5:3 and 2:1.
MaxVobSize == 3 * MaxBlocks

\* Discs of two title sets that differ in the size of their title VOBs only;
\* a title set without title VOBs has size 0 (line 1624).
SizeDiscs ==
  {[vts |-> [k \in 1..2 |->
               [size |-> f[k], nr_of_ptts |-> 1,
                nr_of_vtstt_audio_streams |-> 1,
                nr_of_vtstt_subp_streams |-> 1,
                channels |-> 1,
                display_aspect_ratio |-> "16:9"]],
    aspect |-> "16:9"] :
     f \in [1..2 -> 0..MaxVobSize]}

InitSizeCheck ==
  /\ CopyIdle /\ RefreshIdle /\ MirrorIdle(FALSE)
  /\ dvd_file = << >> /\ start_offset = 0 /\ size = 0
  /\ errorstrat = STRATEGY_ABORT
  /\ destination = EmptyFile /\ result = -1
  /\ cells = << >> /\ cell_start_sector = << >> /\ cell_end_sector = << >>
  /\ cell_index = 0 /\ left = 0 /\ soffset = 0
  /\ failed_on_read = FALSE
  /\ title_set = 0 /\ calls = << >> /\ disc_result = -1
  /\ request = [kind |-> "disc", n |-> 0]
  /\ vmg_ifo \in SizeDiscs
  /\ titles_info = NoGuess
  /\ pc = "size_check"

\* Lines 1639 and 1649: the sizes are sorted, largest first, and the second
\* largest is checked against the largest; result is what CheckSizeArray
\* returned.
DualSizeCheck ==
  /\ pc = "size_check"
  /\ LET n == Len(vmg_ifo.vts)
         sz == bsort_max_to_min([k \in 1..n |-> vmg_ifo.vts[k].size],
                                [k \in 1..n |-> k])
     IN result' = IF CheckSizeArray(sz.sector, 1, 2) THEN 1 ELSE 0
  /\ pc' = "size_checked"
  /\ UNCHANGED <<ioVars, destination, copyVars, refreshVars,
                 failed_on_read, mirrorVars, cellVars, discVars, guessVars>>

NextSizeCheck == DualSizeCheck

SpecSizeCheck == InitSizeCheck /\ [][NextSizeCheck]_vars

\* The larger and the smaller of the two sizes.
ReferenceSize == Max(vmg_ifo.vts[1].size, vmg_ifo.vts[2].size)
TargetSize == Min(vmg_ifo.vts[1].size, vmg_ifo.vts[2].size)

\* C27: for non-negative sizes with sizes[reference] >= sizes[target] the
\* size check returns 1 exactly when sizes[target] > 0 and
\* 2 * sizes[reference] < 3 * sizes[target], and 0 otherwise.
C27_SizeCheckIsOneAndAHalf ==
  pc = "size_checked" =>
    /\ result \in {0, 1}
    /\ result = 1 <=> (TargetSize > 0 /\ 2 * ReferenceSize < 3 * TargetSize)

\* The check passed for two different sizes, the larger one an odd number.
C27_Witness ==
  /\ pc = "size_checked" /\ result = 1
  /\ ReferenceSize > TargetSize
  /\ ReferenceSize % 2 = 1
(* ------------------------------------------------------------------ *)
(* Properties of the ranking array accesses                            *)
(* ------------------------------------------------------------------ *)

\* C29: the feature guesser never indexes a ranking array outside
\* [0, number_of_title_sets): every target position the multi-episode scan
\* hands to the size check is below the number of title sets.
C29_SizeScanStaysInArray ==
  pc = "guessed" =>
    \A k \in 1..Len(titles_info.size_reads) :
      titles_info.size_reads[k] \in 0..(Len(vmg_ifo.vts) - 1)

\* What the scan does keep to: it reads the positions 1, 2, ... in order,
\* each once, and never goes beyond position number_of_title_sets.
C29_SizeScanReadsAtMostOnePastEnd ==
  pc = "guessed" =>
    /\ titles_info.size_reads
         = [k \in 1..Len(titles_info.size_reads) |-> k]
    /\ Len(titles_info.size_reads) <= Len(vmg_ifo.vts)
    /\ ~titles_info.multi => titles_info.size_reads = << >>

\* The scan stays inside the array exactly when some title set fails the
\* size check against the largest.
C29_InRangeWhenSomeSetFails ==
  (pc = "guessed" /\ titles_info.multi) =>
    (C29_SizeScanStaysInArray
       <=> \E k, big \in 1..Len(vmg_ifo.vts) :
             /\ \A j \in 1..Len(vmg_ifo.vts) :
                  vmg_ifo.vts[j].size <= vmg_ifo.vts[big].size
             /\ 3 * vmg_ifo.vts[k].size <= 2 * vmg_ifo.vts[big].size)
(* ------------------------------------------------------------------ *)
(* Progress of the copy loops                                          *)
(* ------------------------------------------------------------------ *)

\* The blocks the refill still has to go over: those of the segments not yet
\* finished, less the cursor in the first of them.
RECURSIVE SegmentBlocks(_)
SegmentBlocks(q) ==
  IF q = << >> THEN 0 ELSE Head(q).block_count + SegmentBlocks(Tail(q))

RefillLeft == SegmentBlocks(segments) - cursor

\* One iteration of the loop of DVDCopyBlocks returns, or moves offset
\* forward by what it takes from remaining, at least one block and at most
\* all of remaining.
CopyLoopAdvances ==
  (pc = "copy" /\ remaining > 0) =>
    \/ pc' = "done"
    \/ /\ remaining' < remaining /\ remaining' >= 0
       /\ offset' - offset = remaining - remaining'
       /\ offset' + remaining' = start_offset + size

\* One iteration of the loop of gap_process_segment returns, or moves the
\* cursor forward by at least one block and not beyond the end of the
\* segment; its read lies inside the segment.
RefillLoopAdvances ==
  (pc = "fg_fill" /\ segments # << >>) =>
    /\ LET rd == readLog'[Len(readLog')] IN
         /\ rd[1] = Head(segments).start_block + cursor
         /\ rd[2] >= 1
         /\ rd[1] + rd[2] <= Head(segments).start_block + Head(segments).block_count
    /\ \/ pc' = "done"
       \/ /\ RefillLeft' < RefillLeft /\ RefillLeft' >= 0
          /\ cursor' >= 0
          /\ segments' # << >> => cursor' < Head(segments').block_count
          /\ segments' = segments => cursor' > cursor

\* C28: the copy loops terminate for every error strategy and every pattern of
\* read results: each iteration of DVDCopyBlocks and of gap_process_segment
\* either returns or advances its cursor by at least one block and never past
\* the end of the requested range, so that remaining never becomes negative.
C28_LoopsAdvanceWithinRange ==
  [][CopyLoopAdvances /\ RefillLoopAdvances]_vars

\* A fresh copy of a part of two or more blocks under SKIP_BLOCK on which
\* every read failed has returned: the output is padding only.
C28_Witness ==
  /\ pc = "done" /\ result = 0 /\ ~fill_gaps
  /\ errorstrat = STRATEGY_SKIP_BLOCK
  /\ size > 1 /\ remaining = 0
  /\ offset = start_offset + size
  /\ destination.blocks = Zeros(size)
  /\ \A i \in 0..(size - 1) : dvd_file[start_offset + i] # 0

\* The two loops with their steps always taken in the end: what the scheduler
\* of a sequential program gives.
SpecCopyFair == SpecCopy /\ WF_vars(NextCopy)

SpecRefreshFair == SpecRefresh /\ WF_vars(NextRefresh)

\* The operation returns.
C28_OperationReturns == <>(pc = "done")
(* ------------------------------------------------------------------ *)
(* Properties of the chapter extraction in refresh mode                *)
(* ------------------------------------------------------------------ *)

\* The blocks the extraction takes from the disc, in output order: what
\* DVDWriteCells reads of every range.
ExtractedBlocks == RangeBlocks(cell_start_sector, cell_end_sector, 1, -1)

\* The first output file held a partial copy of the same extraction when the
\* program started: no more blocks than the extraction has, every full block
\* blank or the block of its place, and after them possibly the first bytes
\* of the block of that place.
PartialCopyBefore ==
  /\ \A v \in 2..MaxParts : existing[VobName(v)].kind = "none"
  /\ existing[VobName(1)].kind \in {"none", "reg"}
  /\ existing[VobName(1)].kind = "reg" =>
       LET f == existing[VobName(1)].file IN
       /\ Len(f.blocks) + f.tail <= Len(ExtractedBlocks)
       /\ Len(f.blocks) + f.tail <= MAX_VOB_SIZE
       /\ \A i \in 1..Len(f.blocks) : f.blocks[i] \in {0, ExtractedBlocks[i]}
       /\ f.tail > 0 => f.tailv \in {0, ExtractedBlocks[Len(f.blocks) + 1]}

\* C30: chapter extraction in refresh mode over a partial copy of the same
\* disc, also one that ends in a partial block: after a successful run every
\* block of the output is the disc block of its place, and no partial block
\* is left.
C30_RefreshedCellsEqualDisc ==
  (ExtractionSucceeded /\ fill_gaps /\ PartialCopyBefore) =>
    /\ OutputBlocks(tree, vob) = ExtractedBlocks
    /\ \A v \in 1..vob : tree[VobName(v)].file.tail = 0

\* The same with a partial last block whose bytes are all zero, or none: the
\* case in which the refresh does rewrite the block.
C30_HoldsForBlankPartialBlock ==
  (/\ ExtractionSucceeded /\ fill_gaps /\ PartialCopyBefore
   /\ existing[VobName(1)].kind = "reg" =>
        existing[VobName(1)].file.tailv = 0) =>
    /\ OutputBlocks(tree, vob) = ExtractedBlocks
    /\ \A v \in 1..vob : tree[VobName(v)].file.tail = 0

\* What the refresh leaves of a partial block that holds the first bytes of
\* its disc block: the block as it was, or those bytes followed by zeros.
C30_MatchingPartialBlockKept ==
  (/\ ExtractionSucceeded /\ fill_gaps /\ PartialCopyBefore
   /\ existing[VobName(1)].kind = "reg"
   /\ existing[VobName(1)].file.tail > 0
   /\ existing[VobName(1)].file.tailv # 0) =>
    LET f == tree[VobName(1)].file
        n == Len(existing[VobName(1)].file.blocks)
    IN \/ Len(f.blocks) = n /\ f.tail > 0
             /\ f.tailv = existing[VobName(1)].file.tailv
       \/ Len(f.blocks) > n
             /\ f.blocks[n + 1] = PaddedTail(existing[VobName(1)].file)

====
